---- MODULE Spec2Model ----
(***************************************************************************)
(* Model of the 128x64 LCD driver of library/uc-graphics/lcd.h: the RAM    *)
(* frame buffer, the two draw modes (immediate with grouped pixel changes, *)
(* buffered with flush), the page/column cache of the immediate mode and   *)
(* the two KS0108 segment controllers the driver writes to.                *)
(*                                                                         *)
(* The driver state is threaded through the operators as a record m; every *)
(* C function is one operator of the same name, and every public function  *)
(* is one action that runs the whole call.  uc_lcd_send is modelled at the *)
(* level of the unit it is asked to latch (csel1, csel2, command_data,     *)
(* data); the device consumes that unit.                                   *)
(*                                                                         *)
(* Further sections follow the pins of the three data modes, the timed     *)
(* task library (timing/timed_tasks.h), the one-wire library               *)
(* (io/onewire.h), the time library (timing/time.h) and the line functions *)
(* of uc-graphics/graphics.h.  All sections share one list of variables;   *)
(* each specification starts the libraries it does not follow at rest.     *)
(***************************************************************************)
EXTENDS Integers, Sequences, FiniteSets, TLC

VARIABLES
    lcd_mode,                       \* LCD_MODE_IMMEDIATE or LCD_MODE_BUFFERED (build time)
    started,                        \* uc_lcd_init has run
    uc_lcd_buffer,                  \* uint8_t uc_lcd_buffer[1024]
    uc_lcd_inverted,                \* uint8_t uc_lcd_inverted
    uc_lcd_current_column_chip1,    \* immediate mode only
    uc_lcd_current_column_chip2,
    uc_lcd_current_page_chip1,
    uc_lcd_current_page_chip2,
    uc_lcd_grouped_pixel_actions_level,
    uc_lcd_data_changed,            \* buffered mode only
    dev,                            \* the two segment controllers (registers and RAM)
    power_on,                       \* the device state found by uc_lcd_init (history)
    sent,                           \* units handed to uc_lcd_send by the last call, in order
    full_sends,                     \* calls of uc_lcd_send_buffer_to_lcd made by the last call
    last_op,                        \* the last public call and its arguments
    pixels_only,                    \* since uc_lcd_init only in-range set_pixel calls at level 0
    ops,                            \* number of public calls made so far
    budget,                         \* number of public calls the run follows
    before_invert,                  \* buffer and flag found by the last call, a uc_lcd_set_inverted
    transport,                      \* LCD_DATA_MODE_* / LCD_DMP_CONTROL_* of the build
    sr_bits,                        \* LCD_DMS_SR_BIT_CSEL1, _CSEL2, _COMMAND_DATA of the build
    build,                          \* outcome of the macro validation section
    pins,                           \* output registers, the 74HC595 pair, the levels the display latched
    request,                        \* the arguments of the last uc_lcd_send followed at pin level
    sends,                          \* number of uc_lcd_send calls followed at pin level
    uc_tt_tasks,                    \* timed_task *uc_tt_tasks[UC_TT_TASK_BUFFER]
    tt_task,                        \* the timed_task structs of the application
    tt_now,                         \* what API_GET_TIME_US gives
    tt_ran,                         \* the task functions invoked by the last call, in order
    tt_last,                        \* the last call of the timed task library
    tt_calls,                       \* number of calls of the timed task library so far
    ow_timing,                      \* OW_TIMING_PRECISE or OW_TIMING_APPROXIMATELY
    ow_fn,                          \* the one-wire function that is running, and
    ow_pc,                          \*   the statement it is at
    sreg_i,                         \* the global interrupt enable bit of SREG
    ow_ie,                          \* the local ie of the running function
    ow_entry_i,                     \* the bit found at entry (history)
    ow_bus,                         \* the data line: pulled low or released
    ow_window,                      \* from the first pull low to the end of the last delay
    ow_irqs,                        \* interrupts served inside that window of the running call
    ow_byte,                        \* the argument of ow_send_byte
    ow_slots,                       \* the write slots ow_send_byte put on the bus
    ow_result,                      \* what ow_read_byte returned
    ow_calls,                       \* number of one-wire calls so far
    wave,                           \* the pin levels after each port write of the last uc_lcd_send
    ref,                            \* display and cache of the driver that suppresses no command
    open_groups,                    \* enter calls not yet matched by a leave (history)
    tt_stuck,                       \* a call of the timed task library that does not return
    time_us,                        \* volatile uint64_t time_us, least significant byte first
    tg_order,                       \* the order in which the build loads the bytes of time_us
    tg_pc,                          \* number of bytes the running Time_Get has loaded
    tg_bytes,                       \* the bytes it has loaded
    tg_held,                        \* the values time_us held during the call (history)
    tg_result,                      \* what the last Time_Get returned
    tg_prev,                        \* what the Time_Get before it returned
    tg_calls,                       \* number of Time_Get calls so far
    isrs,                           \* number of TIMER0_COMPA interrupts served so far
    gr_args,                        \* the arguments of uc_graphics_draw_line
    gr_fn,                          \* the line function the call was handed on to
    gr_pc,                          \* where the call is
    gr_i,                           \* the loop variable
    gr_pixel,                       \* the last LCD_API_SET_PIXEL call it made
    gr_steps                        \* LCD_API_SET_PIXEL calls made by the call, up to the bound

vars == << lcd_mode, started, uc_lcd_buffer, uc_lcd_inverted,
           uc_lcd_current_column_chip1, uc_lcd_current_column_chip2,
           uc_lcd_current_page_chip1, uc_lcd_current_page_chip2,
           uc_lcd_grouped_pixel_actions_level, uc_lcd_data_changed,
           dev, power_on, sent, full_sends, last_op, pixels_only, ops, budget,
           before_invert, transport, sr_bits, build, pins, request, sends,
           uc_tt_tasks, tt_task, tt_now, tt_ran, tt_last, tt_calls,
           ow_timing, ow_fn, ow_pc, sreg_i, ow_ie, ow_entry_i, ow_bus, ow_window,
           ow_irqs, ow_byte, ow_slots, ow_result, ow_calls,
           wave, ref, open_groups, tt_stuck,
           time_us, tg_order, tg_pc, tg_bytes, tg_held, tg_result, tg_prev, tg_calls, isrs,
           gr_args, gr_fn, gr_pc, gr_i, gr_pixel, gr_steps >>

\* the variables of the pin level
tvars == << transport, sr_bits, build, pins, request, sends, wave >>

\* the variables of the timed task library
tt_vars == << uc_tt_tasks, tt_task, tt_now, tt_ran, tt_last, tt_calls, tt_stuck >>

\* the variables of the one-wire library
ow_vars == << ow_timing, ow_fn, ow_pc, sreg_i, ow_ie, ow_entry_i, ow_bus, ow_window,
              ow_irqs, ow_byte, ow_slots, ow_result, ow_calls >>

\* the variables of the time library
time_vars == << time_us, tg_order, tg_pc, tg_bytes, tg_held, tg_result, tg_prev,
                tg_calls, isrs >>

\* the variables of the line functions of the graphics library
gr_vars == << gr_args, gr_fn, gr_pc, gr_i, gr_pixel, gr_steps >>

\* what the runs of the original driver and of the other libraries leave alone
more_vars == << ref, open_groups, time_vars, gr_vars >>

-----------------------------------------------------------------------------
(* Program constants *)

BufferSize == 1024
ChipBytes == 512
Columns == 64
Pages == 8
LcdWidth == 128
LcdHeight == 64
Uint8 == 256

(* Bounds of the model *)

MaxOps == 2
MaxLevel == 2

Byte == 0 .. (Uint8 - 1)

-----------------------------------------------------------------------------
(* uint8_t arithmetic *)

Pow2(n) == 2 ^ n

\* bit n of b
Bit(b, n) == (b \div Pow2(n)) % 2

\* data |= (1 << bit)
SetBit(b, n) == IF Bit(b, n) = 1 THEN b ELSE b + Pow2(n)

\* data &= ~(1 << bit)
ClearBit(b, n) == IF Bit(b, n) = 1 THEN b - Pow2(n) ELSE b

\* ~b on a uint8_t
\* mutant: -x for ~x
ComplementAsNegate(b) == (Uint8 - b) % Uint8

Complement(b) == (Uint8 - 1) - b

RECURSIVE OrBits(_, _, _)
OrBits(a, b, n) ==
    IF n = 8 THEN 0
    ELSE (IF Bit(a, n) = 1 \/ Bit(b, n) = 1 THEN Pow2(n) ELSE 0) + OrBits(a, b, n + 1)

\* a | b on uint8_t
Or8(a, b) == OrBits(a, b, 0)

\* a & mask for a mask of the low k bits
AndLow(a, k) == a % Pow2(k)

-----------------------------------------------------------------------------
(* The display: two KS0108 segment controllers.  Each has a page register, *)
(* a column register that increments after every data write and overflows  *)
(* after 63 to 0, a start line register, an on/off latch and 8 x 64 bytes   *)
(* of display RAM.  CSEL high selects a chip; command/data low is command. *)

CmdTurnOff == 62
CmdTurnOn == 63
CmdSetColumn == 64
CmdSetPage == 184
CmdSetStartline == 192

\* chip n executes an instruction byte (command/data low)
DeviceCommand(d, n, data) ==
    IF data \div 64 = 1 THEN [d EXCEPT !.col[n] = data % 64]
    ELSE IF data \div 8 = 23 THEN [d EXCEPT !.page[n] = data % 8]
    ELSE IF data \div 64 = 3 THEN [d EXCEPT !.startline[n] = data % 64]
    ELSE IF data \div 2 = 31 THEN [d EXCEPT !.on[n] = data % 2]
    ELSE d

\* chip n stores a display data byte (command/data high) and steps its column
DeviceData(d, n, data) ==
    [d EXCEPT !.ram[n][d.page[n] * Columns + d.col[n]] = data,
              !.col[n] = (d.col[n] + 1) % Columns]

DeviceChip(d, n, selected, command_data, data) ==
    IF selected = 0 THEN d
    ELSE IF command_data = 1 THEN DeviceData(d, n, data)
    ELSE DeviceCommand(d, n, data)

\* one enable pulse with the given levels on CSEL1, CSEL2, command/data and DB0..DB7
DeviceLatch(d, csel1, csel2, command_data, data) ==
    DeviceChip(DeviceChip(d, 1, csel1, command_data, data), 2, csel2, command_data, data)

-----------------------------------------------------------------------------
(* The driver.  m is the record of the driver's globals, the device and    *)
(* the units sent so far by the running call.                              *)

Immediate == "LCD_MODE_IMMEDIATE"
Buffered == "LCD_MODE_BUFFERED"

uc_lcd_send(m, csel1, csel2, command_data, data) ==
    [m EXCEPT !.sent = Append(@, <<csel1, csel2, command_data, data>>),
              !.dev = DeviceLatch(@, csel1, csel2, command_data, data)]

\* mutant: the byte goes out as display data
TurnOnAsData(m) == uc_lcd_send(m, 1, 1, 1, CmdTurnOn)

uc_lcd_turn_on(m) == uc_lcd_send(m, 1, 1, 0, CmdTurnOn)

uc_lcd_turn_off(m) == uc_lcd_send(m, 1, 1, 0, CmdTurnOff)

uc_lcd_set_startline(m, startline) ==
    uc_lcd_send(m, 1, 1, 0, Or8(CmdSetStartline, startline))

\* m.resend marks the driver the cache is judged against: the same code with the
\* four #ifdef LCD_MODE_IMMEDIATE guards of the address setters taken out
uc_lcd_set_page_chip_1(m, page) ==
    IF m.mode = Immediate
    THEN IF page # m.page1 \/ m.resend
         THEN [uc_lcd_send(m, 1, 0, 0, Or8(CmdSetPage, AndLow(page, 3))) EXCEPT !.page1 = page]
         ELSE m
    ELSE uc_lcd_send(m, 1, 0, 0, Or8(CmdSetPage, AndLow(page, 3)))

uc_lcd_set_page_chip_2(m, page) ==
    IF m.mode = Immediate
    THEN IF page # m.page2 \/ m.resend
         THEN [uc_lcd_send(m, 0, 1, 0, Or8(CmdSetPage, AndLow(page, 3))) EXCEPT !.page2 = page]
         ELSE m
    ELSE uc_lcd_send(m, 0, 1, 0, Or8(CmdSetPage, AndLow(page, 3)))

\* mutant: the column is not masked to six bits
SetColumnChip1Unmasked(m, column) ==
    IF m.mode = Immediate
    THEN IF column # m.page1
         THEN [uc_lcd_send(m, 1, 0, 0, Or8(CmdSetColumn, column)) EXCEPT !.col1 = column]
         ELSE m
    ELSE uc_lcd_send(m, 1, 0, 0, Or8(CmdSetColumn, column))

\* the immediate mode guard compares the column with uc_lcd_current_page_chip1
uc_lcd_set_column_chip_1(m, column) ==
    IF m.mode = Immediate
    THEN IF column # m.page1 \/ m.resend
         THEN [uc_lcd_send(m, 1, 0, 0, Or8(CmdSetColumn, AndLow(column, 6))) EXCEPT !.col1 = column]
         ELSE m
    ELSE uc_lcd_send(m, 1, 0, 0, Or8(CmdSetColumn, AndLow(column, 6)))

\* the immediate mode guard compares the column with uc_lcd_current_page_chip2
uc_lcd_set_column_chip_2(m, column) ==
    IF m.mode = Immediate
    THEN IF column # m.page2 \/ m.resend
         THEN [uc_lcd_send(m, 0, 1, 0, Or8(CmdSetColumn, AndLow(column, 6))) EXCEPT !.col2 = column]
         ELSE m
    ELSE uc_lcd_send(m, 0, 1, 0, Or8(CmdSetColumn, AndLow(column, 6)))

\* mutant: the data byte is sent, the cached column stays
WriteChip1KeepsCache(m, data) == uc_lcd_send(m, 1, 0, 1, data)

uc_lcd_write_chip1(m, data) ==
    IF m.mode = Immediate
    THEN [uc_lcd_send(m, 1, 0, 1, data) EXCEPT !.col1 = (m.col1 + 1) % Columns]
    ELSE uc_lcd_send(m, 1, 0, 1, data)

uc_lcd_write_chip2(m, data) ==
    IF m.mode = Immediate
    THEN [uc_lcd_send(m, 0, 1, 1, data) EXCEPT !.col2 = (m.col2 + 1) % Columns]
    ELSE uc_lcd_send(m, 0, 1, 1, data)

\* The locals index, column and page of uc_lcd_send_buffer_to_lcd are fields of m.

\* for ( ; column < 64; column++ ) uc_lcd_send(csel1, csel2, 1, uc_lcd_buffer[index++])
RECURSIVE SendColumns(_, _, _)
SendColumns(m, csel1, csel2) ==
    IF m.column < Columns
    THEN SendColumns([uc_lcd_send(m, csel1, csel2, 1, m.buffer[m.index])
                         EXCEPT !.index = @ + 1, !.column = @ + 1],
                     csel1, csel2)
    ELSE m

\* for ( ; page < 8; page++ ) { uc_lcd_set_page_chip_1(page); for ( column = 0; ... ) }
RECURSIVE SendPagesChip1(_)
SendPagesChip1(m) ==
    IF m.page < Pages
    THEN SendPagesChip1(
             [SendColumns([uc_lcd_set_page_chip_1(m, m.page) EXCEPT !.column = 0], 1, 0)
                 EXCEPT !.page = @ + 1])
    ELSE m

\* the same loop of chip 2
RECURSIVE SendPagesChip2(_)
SendPagesChip2(m) ==
    IF m.page < Pages
    THEN SendPagesChip2(
             [SendColumns([uc_lcd_set_page_chip_2(m, m.page) EXCEPT !.column = 0], 0, 1)
                 EXCEPT !.page = @ + 1])
    ELSE m

\* mutant: the column of chip 2 is not set before its pages are written
SendBufferNoColumnChip2(m) ==
    LET a == SendPagesChip1([uc_lcd_set_column_chip_1([m EXCEPT !.index = 0], 0)
                                EXCEPT !.page = 0])
        b == SendPagesChip2([a EXCEPT !.page = 0])
        c == uc_lcd_set_page_chip_2(uc_lcd_set_page_chip_1(b, 0), 0)
    IN  [c EXCEPT !.full = @ + 1]

uc_lcd_send_buffer_to_lcd(m) ==
    LET a == SendPagesChip1([uc_lcd_set_column_chip_1([m EXCEPT !.index = 0], 0)
                                EXCEPT !.page = 0])
        b == SendPagesChip2([uc_lcd_set_column_chip_2(a, 0) EXCEPT !.page = 0])
        c == uc_lcd_set_page_chip_2(uc_lcd_set_page_chip_1(b, 0), 0)
    IN  [c EXCEPT !.full = @ + 1]

\* mutant: the changed flag is not cleared
FlushKeepsFlag(m) ==
    IF m.changed # 0 THEN uc_lcd_send_buffer_to_lcd(m) ELSE m

uc_lcd_flush(m) ==
    IF m.changed # 0
    THEN [uc_lcd_send_buffer_to_lcd(m) EXCEPT !.changed = 0]
    ELSE m

uc_lcd_is_inverted(m) == m.inverted

\* mutant: the buffered mode does not mark the change
AfterBufferChangeUnmarked(m) ==
    IF m.mode = Immediate THEN uc_lcd_send_buffer_to_lcd(m) ELSE m

\* mutant: inside a group the whole-buffer send is put off like a pixel's
AfterBufferChangeGrouped(m) ==
    IF m.mode = Immediate
    THEN IF m.level = 0 THEN uc_lcd_send_buffer_to_lcd(m) ELSE m
    ELSE [m EXCEPT !.changed = 1]

\* what the draw mode adds after a change of the whole buffer
AfterBufferChange(m) ==
    IF m.mode = Immediate
    THEN uc_lcd_send_buffer_to_lcd(m)
    ELSE [m EXCEPT !.changed = 1]

\* mutant: the buffer is complemented, the inverting status is not updated
SetInvertedKeepsStatus(m, invert) ==
    IF invert # m.inverted
    THEN AfterBufferChange([m EXCEPT
             !.buffer = [i \in 0 .. (BufferSize - 1) |-> Complement(m.buffer[i])]])
    ELSE m

uc_lcd_set_inverted(m, invert) ==
    IF invert # m.inverted
    THEN AfterBufferChange([m EXCEPT
             !.buffer = [i \in 0 .. (BufferSize - 1) |-> Complement(m.buffer[i])],
             !.inverted = invert])
    ELSE m

\* mutant: clears to 0x00 whatever the inverting status is
ClearIgnoresInverted(m) ==
    AfterBufferChange([m EXCEPT !.buffer = [i \in 0 .. (BufferSize - 1) |-> 0]])

uc_lcd_clear(m) ==
    AfterBufferChange([m EXCEPT
        !.buffer = [i \in 0 .. (BufferSize - 1) |-> IF m.inverted # 0 THEN 255 ELSE 0]])

uc_lcd_fill(m) ==
    AfterBufferChange([m EXCEPT
        !.buffer = [i \in 0 .. (BufferSize - 1) |-> IF m.inverted # 0 THEN 0 ELSE 255]])

\* uint8_t counter: ++ wraps 255 to 0
uc_lcd_enter_grouped_pixel_changes(m) ==
    [m EXCEPT !.level = (@ + 1) % Uint8]

\* mutant: every leave sends the buffer
LeaveAlwaysSends(m) ==
    uc_lcd_send_buffer_to_lcd([m EXCEPT !.level = (@ + Uint8 - 1) % Uint8])

\* mutant: a leave without enter is ignored
LeaveGuarded(m) ==
    IF m.level = 0 THEN m
    ELSE LET d == [m EXCEPT !.level = (@ + Uint8 - 1) % Uint8]
         IN  IF d.level = 0 THEN uc_lcd_send_buffer_to_lcd(d) ELSE d

\* uint8_t counter: -- wraps 0 to 255
uc_lcd_leave_grouped_pixel_changes(m) ==
    LET d == [m EXCEPT !.level = (@ + Uint8 - 1) % Uint8]
    IN  IF d.level = 0 THEN uc_lcd_send_buffer_to_lcd(d) ELSE d

\* mutant: the chip 2 offset is left out
BufferIndexNoChipOffset(x, y) ==
    (x % Columns) + ((y \div 8) * Columns)

\* mutant: the row within the page is taken for the page
BufferIndexPageFromBit(x, y) ==
    (x % Columns) + ((y % 8) * Columns) + (IF x < Columns THEN 0 ELSE ChipBytes)

\* buffer_index = column + (page * 64); if ( !chip_1 ) buffer_index += 512
BufferIndex(x, y) ==
    (x % Columns) + ((y \div 8) * Columns) + (IF x < Columns THEN 0 ELSE ChipBytes)

\* the byte stored for pixel value `pixel` in bit `bit` of `data` under the inverting status
PixelData(data, bit, pixel, inverted) ==
    IF inverted # 0
    THEN (IF pixel # 0 THEN ClearBit(data, bit) ELSE SetBit(data, bit))
    ELSE (IF pixel # 0 THEN SetBit(data, bit) ELSE ClearBit(data, bit))

\* mutant: the grouping level is not looked at
WriteThroughUngrouped(m, chip_1, page, column, data) ==
    IF chip_1
    THEN uc_lcd_write_chip1(
             uc_lcd_set_column_chip_1(uc_lcd_set_page_chip_1(m, page), column), data)
    ELSE uc_lcd_write_chip2(
             uc_lcd_set_column_chip_2(uc_lcd_set_page_chip_2(m, page), column), data)

\* the immediate mode tail of uc_lcd_set_pixel
WriteThrough(m, chip_1, page, column, data) ==
    IF m.level = 0
    THEN IF chip_1
         THEN uc_lcd_write_chip1(
                  uc_lcd_set_column_chip_1(uc_lcd_set_page_chip_1(m, page), column), data)
         ELSE uc_lcd_write_chip2(
                  uc_lcd_set_column_chip_2(uc_lcd_set_page_chip_2(m, page), column), data)
    ELSE m

\* mutant: the check of y is left out
SetPixelNoRowCheck(m, x, y, pixel) ==
    IF x > LcdWidth - 1 THEN m
    ELSE LET chip_1 == x < Columns
             buffer_index == BufferIndex(x, y) % BufferSize
             data == PixelData(m.buffer[buffer_index], y % 8, pixel, m.inverted)
             w == [m EXCEPT !.buffer[buffer_index] = data]
         IN  IF m.mode = Buffered
             THEN [w EXCEPT !.changed = 1]
             ELSE WriteThrough(w, chip_1, y \div 8, x % Columns, data)

\* mutant: the buffered mode marks only a byte that really changed
SetPixelMarksRealChange(m, x, y, pixel) ==
    IF x > LcdWidth - 1 THEN m
    ELSE IF y > LcdHeight - 1 THEN m
    ELSE LET buffer_index == BufferIndex(x, y)
             data == PixelData(m.buffer[buffer_index], y % 8, pixel, m.inverted)
             w == [m EXCEPT !.buffer[buffer_index] = data]
         IN  IF m.mode = Buffered
             THEN (IF data # m.buffer[buffer_index] THEN [w EXCEPT !.changed = 1] ELSE w)
             ELSE WriteThrough(w, x < Columns, y \div 8, x % Columns, data)

uc_lcd_set_pixel(m, x, y, pixel) ==
    IF x > LcdWidth - 1 THEN m
    ELSE IF y > LcdHeight - 1 THEN m
    ELSE LET chip_1 == x < Columns
             column == x % Columns
             page == y \div 8
             bit == y % 8
             buffer_index == BufferIndex(x, y)
             data == PixelData(m.buffer[buffer_index], bit, pixel, m.inverted)
             w == [m EXCEPT !.buffer[buffer_index] = data]
         IN  IF m.mode = Buffered
             THEN [w EXCEPT !.changed = 1]
             ELSE WriteThrough(w, chip_1, page, column, data)

\* mutant: the inverting status is left as it is
ResetKeepsInverted(m) ==
    LET b == uc_lcd_set_startline(m, 0)
        c == uc_lcd_set_page_chip_2(uc_lcd_set_page_chip_1(b, 0), 0)
        d == uc_lcd_set_column_chip_2(uc_lcd_set_column_chip_1(c, 0), 0)
        e == IF m.mode = Immediate THEN [d EXCEPT !.level = 0] ELSE d
        f == uc_lcd_clear(e)
    IN  IF m.mode = Buffered THEN uc_lcd_flush(f) ELSE f

uc_lcd_reset(m) ==
    LET a == uc_lcd_set_inverted(m, 0)
        b == uc_lcd_set_startline(a, 0)
        c == uc_lcd_set_page_chip_2(uc_lcd_set_page_chip_1(b, 0), 0)
        d == uc_lcd_set_column_chip_2(uc_lcd_set_column_chip_1(c, 0), 0)
        e == IF m.mode = Immediate THEN [d EXCEPT !.level = 0] ELSE d
        f == uc_lcd_clear(e)
    IN  IF m.mode = Buffered THEN uc_lcd_flush(f) ELSE f

\* the port set-up of uc_lcd_init drives no enable pulse; the call then resets
uc_lcd_init(m) == uc_lcd_reset(m)

-----------------------------------------------------------------------------
(* uc_lcd_send at pin level.  p is the record of the output registers     *)
(* (data port, the lines CSEL1, CSEL2, command/data and enable, the clock  *)
(* and serial pins), of the two cascaded 74HC595 of the serial mode and   *)
(* of the levels the display saw when its enable line last rose.           *)

ParallelTogether == "LCD_DMP_CONTROL_TOGETHER"
ParallelIndividual == "LCD_DMP_CONTROL_INDIVIDUAL"
Serial == "LCD_DATA_MODE_SERIAL"

\* highest pin number the configuration comment allows for a LCD_DMS_SR_BIT_ macro
MaxSrBit == 3

\* the #if of the macro validation section for the serial data mode
SrBitsAccepted(bits) == 3 = bits.csel1 + bits.csel2 + bits.command_data

\* port |= (level << pin), seen on the one line
LineOr(line, level) == IF line = 1 \/ level = 1 THEN 1 ELSE 0

\* the byte on eight lines q[from] (LSB) .. q[from + 7] (MSB)
RECURSIVE LinesByte(_, _, _)
LinesByte(q, from, n) ==
    IF n = 0 THEN 0 ELSE q[from] + 2 * LinesByte(q, from + 1, n - 1)

\* the levels at the display: in serial mode the first register's Qa..Qh are DB0..DB7
\* and the control lines are wired to the second register's outputs the macros name
DisplayLines(p, tr, bits) ==
    IF tr = Serial
    THEN << p.out[9 + bits.csel1], p.out[9 + bits.csel2], p.out[9 + bits.command_data],
            LinesByte(p.out, 1, 8) >>
    ELSE << p.csel1, p.csel2, p.command_data, p.data >>

\* PORT_ENABLE |= (1 << PIN_ENABLE); ...; PORT_ENABLE &= ~(1 << PIN_ENABLE)
EnablePulse(p, tr, bits) ==
    [p EXCEPT !.latched = DisplayLines(p, tr, bits), !.enable = 0]

\* LCD_TOGGLE_CLOCK with register and shift clock connected together: the output
\* register takes what the shift register held, the shift register takes the serial pin
ClockPulse(p) ==
    [p EXCEPT !.out = p.shift,
              !.shift = << p.serial >> \o SubSeq(p.shift, 1, 15),
              !.clock = 0]

\* n times: serial pin := bit `bit` of value; LCD_TOGGLE_CLOCK; value <<= 1
RECURSIVE ShiftBits(_, _, _, _)
ShiftBits(p, value, bit, n) ==
    IF n = 0 THEN p
    ELSE ShiftBits(ClockPulse([p EXCEPT !.serial = Bit(value, bit)]),
                   (value * 2) % Uint8, bit, n - 1)

\* mutant: the additional clock pulse is left out
ShiftOutNoFlush(p, instructions, data) ==
    ShiftBits(ShiftBits(p, instructions, 2, 3), data, 7, 8)

uc_lcd_shift_out(p, instructions, data) ==
    ClockPulse(ShiftBits(ShiftBits(p, instructions, 2, 3), data, 7, 8))

\* (csel1 << SR_BIT_CSEL1) | (csel2 << SR_BIT_CSEL2) | (command_data << SR_BIT_COMMAND_DATA)
Instructions(bits, csel1, csel2, command_data) ==
    Or8(Or8(csel1 * Pow2(bits.csel1), csel2 * Pow2(bits.csel2)),
        command_data * Pow2(bits.command_data)) % Uint8

SendSerial(p, bits, csel1, csel2, command_data, data) ==
    EnablePulse(uc_lcd_shift_out(p, Instructions(bits, csel1, csel2, command_data), data),
                Serial, bits)

SendParallelTogether(p, bits, csel1, csel2, command_data, data) ==
    EnablePulse([p EXCEPT !.data = data,
                          !.csel1 = LineOr(@, csel1),
                          !.csel2 = LineOr(@, csel2),
                          !.command_data = LineOr(@, command_data)],
                ParallelTogether, bits)

\* all three control ports are given csel1
SendParallelIndividual(p, bits, csel1, csel2, command_data, data) ==
    EnablePulse([p EXCEPT !.data = data,
                          !.csel1 = LineOr(@, csel1),
                          !.csel2 = LineOr(@, csel1),
                          !.command_data = LineOr(@, csel1)],
                ParallelIndividual, bits)

\* the body of uc_lcd_send the build selects
SendPins(p, tr, bits, csel1, csel2, command_data, data) ==
    IF tr = ParallelTogether THEN SendParallelTogether(p, bits, csel1, csel2, command_data, data)
    ELSE IF tr = ParallelIndividual
         THEN SendParallelIndividual(p, bits, csel1, csel2, command_data, data)
    ELSE SendSerial(p, bits, csel1, csel2, command_data, data)

(* uc_lcd_send once more, port write by port write (the _delay_us calls    *)
(* write no port).                                                         *)

\* one write to an output register
PortWrite(p, s, tr, bits) ==
    CASE s.st = "data" -> [p EXCEPT !.data = s.v]
      [] s.st = "control" -> [p EXCEPT !.csel1 = LineOr(@, s.v[1]),
                                       !.csel2 = LineOr(@, s.v[2]),
                                       !.command_data = LineOr(@, s.v[3])]
      [] s.st = "csel1" -> [p EXCEPT !.csel1 = LineOr(@, s.v)]
      [] s.st = "csel2" -> [p EXCEPT !.csel2 = LineOr(@, s.v)]
      [] s.st = "command_data" -> [p EXCEPT !.command_data = LineOr(@, s.v)]
      [] s.st = "serial" -> [p EXCEPT !.serial = s.v]
      [] s.st = "clock_on" -> [p EXCEPT !.out = p.shift,
                                        !.shift = << p.serial >> \o SubSeq(p.shift, 1, 15),
                                        !.clock = 1]
      [] s.st = "clock_off" -> [p EXCEPT !.clock = 0]
      [] s.st = "enable_on" -> [p EXCEPT !.latched = DisplayLines(p, tr, bits),
                                         !.enable = 1]
      [] s.st = "enable_off" -> [p EXCEPT !.enable = 0]

Write(st, v) == [st |-> st, v |-> v]

\* LCD_TOGGLE_CLOCK
ToggleClock == << Write("clock_on", 1), Write("clock_off", 0) >>

\* n times: if ( value & mask ) LCD_TURN_ON_SERIAL else LCD_TURN_OFF_SERIAL;
\* LCD_TOGGLE_CLOCK; value <<= 1
RECURSIVE ShiftWrites(_, _, _)
ShiftWrites(value, bit, n) ==
    IF n = 0 THEN << >>
    ELSE << Write("serial", Bit(value, bit)) >> \o ToggleClock
             \o ShiftWrites((value * 2) % Uint8, bit, n - 1)

\* PORT_ENABLE |= (1 << PIN_ENABLE); PORT_ENABLE &= ~(1 << PIN_ENABLE)
EnableWrites == << Write("enable_on", 1), Write("enable_off", 0) >>

\* mutant: the data port is written while the enable line is high
SendWritesDataLate(tr, bits, csel1, csel2, command_data, data) ==
    IF tr = ParallelTogether
    THEN << Write("control", <<csel1, csel2, command_data>>), Write("enable_on", 1),
            Write("data", data), Write("enable_off", 0) >>
    ELSE IF tr = ParallelIndividual
    THEN << Write("csel1", csel1), Write("csel2", csel1), Write("command_data", csel1),
            Write("enable_on", 1), Write("data", data), Write("enable_off", 0) >>
    ELSE ShiftWrites(Instructions(bits, csel1, csel2, command_data), 2, 3)
             \o ShiftWrites(data, 7, 8)
             \o << Write("enable_on", 1) >> \o ToggleClock \o << Write("enable_off", 0) >>

\* the port writes of uc_lcd_send in the order of the source
SendWrites(tr, bits, csel1, csel2, command_data, data) ==
    IF tr = ParallelTogether
    THEN << Write("data", data), Write("control", <<csel1, csel2, command_data>>) >>
             \o EnableWrites
    ELSE IF tr = ParallelIndividual
    THEN << Write("data", data), Write("csel1", csel1), Write("csel2", csel1),
            Write("command_data", csel1) >>
             \o EnableWrites
    ELSE ShiftWrites(Instructions(bits, csel1, csel2, command_data), 2, 3)
             \o ShiftWrites(data, 7, 8)
             \o ToggleClock
             \o EnableWrites

\* the pins after each of the writes, with the write that led there
RECURSIVE WaveFrom(_, _, _, _, _)
WaveFrom(p, writes, k, tr, bits) ==
    IF k > Len(writes) THEN << >>
    ELSE LET q == PortWrite(p, writes[k], tr, bits)
         IN  << [st |-> writes[k].st, pins |-> q] >> \o WaveFrom(q, writes, k + 1, tr, bits)

\* uc_lcd_init before its uc_lcd_reset: all output levels low
InitPorts(p, tr) ==
    IF tr = Serial
    THEN [p EXCEPT !.clock = 0, !.serial = 0, !.enable = 0]
    ELSE [p EXCEPT !.data = 0, !.csel1 = 0, !.csel2 = 0, !.command_data = 0, !.enable = 0]

-----------------------------------------------------------------------------
(* The state machine: one action per public call. *)

\* the arguments the calls are tried with
PixelCalls ==
    { <<5, 3, 1>>, <<5, 3, 0>>, <<6, 3, 1>>, <<0, 0, 1>>,
      <<64, 0, 1>>, <<127, 63, 1>>,
      <<128, 3, 1>>, <<5, 64, 1>>, <<255, 255, 0>> }

InvertArgs == {0, 1, 2}

\* what the controllers may hold when uc_lcd_init is called: the registers and the
\* RAM are not reset by the driver, and the library leaves the reset pin unused
PowerOnDevice(p, c, g) ==
    [ page |-> <<p, p>>, col |-> <<c, c>>, startline |-> <<0, 0>>, on |-> <<0, 0>>,
      ram |-> << [i \in 0 .. (ChipBytes - 1) |-> g], [i \in 0 .. (ChipBytes - 1) |-> g] >> ]

PowerOnDevices == { PowerOnDevice(0, 0, 165), PowerOnDevice(2, 9, 165) }

Pack ==
    [ mode |-> lcd_mode,
      buffer |-> uc_lcd_buffer,
      inverted |-> uc_lcd_inverted,
      col1 |-> uc_lcd_current_column_chip1,
      col2 |-> uc_lcd_current_column_chip2,
      page1 |-> uc_lcd_current_page_chip1,
      page2 |-> uc_lcd_current_page_chip2,
      level |-> uc_lcd_grouped_pixel_actions_level,
      changed |-> uc_lcd_data_changed,
      dev |-> dev,
      resend |-> FALSE,
      sent |-> << >>,
      full |-> 0,
      index |-> 0,
      column |-> 0,
      page |-> 0 ]

Unpack(r) ==
    /\ uc_lcd_buffer' = r.buffer
    /\ uc_lcd_inverted' = r.inverted
    /\ uc_lcd_current_column_chip1' = r.col1
    /\ uc_lcd_current_column_chip2' = r.col2
    /\ uc_lcd_current_page_chip1' = r.page1
    /\ uc_lcd_current_page_chip2' = r.page2
    /\ uc_lcd_grouped_pixel_actions_level' = r.level
    /\ uc_lcd_data_changed' = r.changed
    /\ dev' = r.dev
    /\ sent' = r.sent
    /\ full_sends' = r.full

Op(name, x, y, v) == [op |-> name, x |-> x, y |-> y, v |-> v]

\* no uc_lcd_set_inverted call is the last call
NoInvert == [buffer |-> << >>, inverted |-> 0]

\* the output registers after reset, the shift registers holding `level` throughout
PowerOnPins(level) ==
    [ data |-> 0, csel1 |-> 0, csel2 |-> 0, command_data |-> 0, enable |-> 0,
      clock |-> 0, serial |-> 0,
      shift |-> [i \in 1 .. 16 |-> level], out |-> [i \in 1 .. 16 |-> level],
      latched |-> <<0, 0, 0, 0>> ]

SrBits(a, b, c) == [csel1 |-> a, csel2 |-> b, command_data |-> c]

\* slots of the task buffer (the default of the header)
UC_TT_TASK_BUFFER == 8

UC_TT_FLAG_BIT_ACTIVE_STATUS == 0
UC_TT_FLAG_BIT_EXECUTE_WITHOUT_DELAY == 1
UC_TT_FLAG_BIT_EXECUTE_ONLY_ONCE == 2

\* the application's timed_task structs; 0 is the null pointer
Tasks == {1, 2}
NullTask == 0

NoCall == [op |-> "none", task |-> NullTask]

\* the timed task library is not used
TasksIdle ==
    /\ uc_tt_tasks = [i \in 0 .. (UC_TT_TASK_BUFFER - 1) |-> NullTask]
    /\ tt_task = [t \in Tasks |-> [flags |-> 0, interval_us |-> 0,
                                     last_executed_us |-> 0, function |-> "plain"]]
    /\ tt_now = 0
    /\ tt_ran = << >>
    /\ tt_last = NoCall
    /\ tt_calls = 0
    /\ tt_stuck = FALSE

OW_TIMING_PRECISE == "OW_TIMING_PRECISE"
OW_TIMING_APPROXIMATELY == "OW_TIMING_APPROXIMATELY"

\* no one-wire function is running
WireAtRest ==
    /\ ow_fn = "none"
    /\ ow_pc = 0
    /\ ow_ie = 0
    /\ ow_entry_i = 0
    /\ ow_bus = "released"
    /\ ow_window = "before"
    /\ ow_irqs = 0
    /\ ow_calls = 0

\* the one-wire library is not used
WireIdle ==
    /\ WireAtRest
    /\ ow_timing = OW_TIMING_PRECISE
    /\ sreg_i = 0
    /\ ow_byte = 0
    /\ ow_slots = << >>
    /\ ow_result = 0

\* the driver that suppresses no command starts like the original one, on a display
\* whose registers are 0
RefAtRest ==
    [ dev |-> PowerOnDevice(0, 0, 165), col1 |-> 0, col2 |-> 0, page1 |-> 0, page2 |-> 0 ]

\* no second driver runs along and the grouping depth is not followed
LcdExtrasIdle ==
    /\ ref = RefAtRest
    /\ open_groups = 0

\* static storage: time_us = 0ULL
ZeroTime == [i \in 0 .. 7 |-> 0]

\* the time library is not used
TimeIdle ==
    /\ time_us = ZeroTime
    /\ tg_order = "ascending"
    /\ tg_pc = 0
    /\ tg_bytes = << >>
    /\ tg_held = {}
    /\ tg_result = ZeroTime
    /\ tg_prev = ZeroTime
    /\ tg_calls = 0
    /\ isrs = 0

\* no line is drawn
LineIdle ==
    /\ gr_args = <<0, 0, 0, 0, 0>>
    /\ gr_fn = "none"
    /\ gr_pc = "idle"
    /\ gr_i = 0
    /\ gr_pixel = << >>
    /\ gr_steps = 0

MoreIdle == LcdExtrasIdle /\ TimeIdle /\ LineIdle

\* the runs of the driver are followed at the level of the units: the pins stay out,
\* and so do the timed task and the one-wire library
PinsIdle ==
    /\ transport = Serial
    /\ sr_bits = SrBits(0, 1, 2)
    /\ build = "accepted"
    /\ pins = PowerOnPins(0)
    /\ request = <<0, 0, 0, 0>>
    /\ sends = 0
    /\ wave = << >>
    /\ TasksIdle
    /\ WireIdle
    /\ MoreIdle

\* static storage is zero-initialised; the display is in some power-on state
InitDriver ==
    /\ lcd_mode \in {Immediate, Buffered}
    /\ started = FALSE
    /\ uc_lcd_buffer = [i \in 0 .. (BufferSize - 1) |-> 0]
    /\ uc_lcd_inverted = 0
    /\ uc_lcd_current_column_chip1 = 0
    /\ uc_lcd_current_column_chip2 = 0
    /\ uc_lcd_current_page_chip1 = 0
    /\ uc_lcd_current_page_chip2 = 0
    /\ uc_lcd_grouped_pixel_actions_level = 0
    /\ uc_lcd_data_changed = 0
    /\ dev \in PowerOnDevices
    /\ power_on = [page |-> dev.page, col |-> dev.col]
    /\ sent = << >>
    /\ full_sends = 0
    /\ last_op = Op("power_on", 0, 0, 0)
    /\ pixels_only = FALSE
    /\ ops = 0
    /\ before_invert = NoInvert

Init ==
    /\ InitDriver
    /\ budget = MaxOps
    /\ PinsIdle

LcdInit ==
    /\ ~started
    /\ started' = TRUE
    /\ Unpack(uc_lcd_init(Pack))
    /\ last_op' = Op("init", 0, 0, 0)
    /\ before_invert' = NoInvert
    /\ pixels_only' = TRUE
    /\ UNCHANGED << lcd_mode, power_on, ops, budget, tvars, tt_vars, ow_vars, more_vars >>

LcdReset ==
    /\ started /\ ops < budget
    /\ Unpack(uc_lcd_reset(Pack))
    /\ last_op' = Op("reset", 0, 0, 0)
    /\ before_invert' = NoInvert
    /\ pixels_only' = FALSE
    /\ ops' = ops + 1
    /\ UNCHANGED << lcd_mode, power_on, started, budget, tvars, tt_vars, ow_vars, more_vars >>

LcdClear ==
    /\ started /\ ops < budget
    /\ Unpack(uc_lcd_clear(Pack))
    /\ last_op' = Op("clear", 0, 0, 0)
    /\ before_invert' = NoInvert
    /\ pixels_only' = FALSE
    /\ ops' = ops + 1
    /\ UNCHANGED << lcd_mode, power_on, started, budget, tvars, tt_vars, ow_vars, more_vars >>

LcdFill ==
    /\ started /\ ops < budget
    /\ Unpack(uc_lcd_fill(Pack))
    /\ last_op' = Op("fill", 0, 0, 0)
    /\ before_invert' = NoInvert
    /\ pixels_only' = FALSE
    /\ ops' = ops + 1
    /\ UNCHANGED << lcd_mode, power_on, started, budget, tvars, tt_vars, ow_vars, more_vars >>

LcdSetInverted ==
    /\ started /\ ops < budget
    /\ \E invert \in InvertArgs :
          /\ Unpack(uc_lcd_set_inverted(Pack, invert))
          /\ last_op' = Op("set_inverted", 0, 0, invert)
    /\ before_invert' = [buffer |-> uc_lcd_buffer, inverted |-> uc_lcd_inverted]
    /\ pixels_only' = FALSE
    /\ ops' = ops + 1
    /\ UNCHANGED << lcd_mode, power_on, started, budget, tvars, tt_vars, ow_vars, more_vars >>

LcdSetPixel ==
    /\ started /\ ops < budget
    /\ \E a \in PixelCalls :
          /\ Unpack(uc_lcd_set_pixel(Pack, a[1], a[2], a[3]))
          /\ last_op' = Op("set_pixel", a[1], a[2], a[3])
          /\ pixels_only' = (/\ pixels_only
                             /\ a[1] < LcdWidth /\ a[2] < LcdHeight
                             /\ uc_lcd_grouped_pixel_actions_level = 0)
    /\ before_invert' = NoInvert
    /\ ops' = ops + 1
    /\ UNCHANGED << lcd_mode, power_on, started, budget, tvars, tt_vars, ow_vars, more_vars >>

\* buffered builds only
LcdFlush ==
    /\ started /\ lcd_mode = Buffered
    /\ Unpack(uc_lcd_flush(Pack))
    /\ last_op' = Op("flush", 0, 0, 0)
    /\ before_invert' = NoInvert
    /\ pixels_only' = FALSE
    /\ UNCHANGED << lcd_mode, power_on, started, ops, budget, tvars, tt_vars, ow_vars, more_vars >>

\* immediate builds only; the nesting depth is kept to MaxLevel
LcdEnterGrouped ==
    /\ started /\ lcd_mode = Immediate
    /\ \/ uc_lcd_grouped_pixel_actions_level < MaxLevel
       \/ uc_lcd_grouped_pixel_actions_level = Uint8 - 1
    /\ Unpack(uc_lcd_enter_grouped_pixel_changes(Pack))
    /\ last_op' = Op("enter", 0, 0, 0)
    /\ before_invert' = NoInvert
    /\ pixels_only' = FALSE
    /\ UNCHANGED << lcd_mode, power_on, started, ops, budget, tvars, tt_vars, ow_vars, more_vars >>

\* immediate builds only; one unmatched leave is followed
LcdLeaveGrouped ==
    /\ started /\ lcd_mode = Immediate
    /\ uc_lcd_grouped_pixel_actions_level <= MaxLevel
    /\ Unpack(uc_lcd_leave_grouped_pixel_changes(Pack))
    /\ last_op' = Op("leave", 0, 0, 0)
    /\ before_invert' = NoInvert
    /\ pixels_only' = FALSE
    /\ UNCHANGED << lcd_mode, power_on, started, ops, budget, tvars, tt_vars, ow_vars, more_vars >>

Next ==
    \/ LcdInit
    \/ LcdReset
    \/ LcdClear
    \/ LcdFill
    \/ LcdSetInverted
    \/ LcdSetPixel
    \/ LcdFlush
    \/ LcdEnterGrouped
    \/ LcdLeaveGrouped

Spec == Init /\ [][Next]_vars

\* a build with LCD_MODE_BUFFERED: the grouping calls are no part of its use
InitBuffered == Init /\ lcd_mode = Buffered

NextBuffered ==
    \/ LcdInit
    \/ LcdReset
    \/ LcdClear
    \/ LcdFill
    \/ LcdSetInverted
    \/ LcdSetPixel
    \/ LcdFlush

SpecBuffered == InitBuffered /\ [][NextBuffered]_vars

\* a build with LCD_MODE_IMMEDIATE on a display whose registers are 0 at uc_lcd_init
InitImmediate ==
    /\ Init
    /\ lcd_mode = Immediate
    /\ dev = PowerOnDevice(0, 0, 165)

NextImmediate ==
    \/ LcdInit
    \/ LcdReset
    \/ LcdClear
    \/ LcdFill
    \/ LcdSetInverted
    \/ LcdSetPixel
    \/ LcdEnterGrouped
    \/ LcdLeaveGrouped

SpecImmediate == InitImmediate /\ [][NextImmediate]_vars

-----------------------------------------------------------------------------
(* The immediate driver run side by side with a driver that suppresses no *)
(* set-page and no set-column command, call by call.                      *)

\* the globals of the second driver: its caches and the display it drives
RefPack ==
    [Pack EXCEPT !.resend = TRUE,
                 !.dev = ref.dev,
                 !.col1 = ref.col1, !.col2 = ref.col2,
                 !.page1 = ref.page1, !.page2 = ref.page2]

RefUnpack(r) ==
    ref' = [dev |-> r.dev, col1 |-> r.col1, col2 |-> r.col2,
            page1 |-> r.page1, page2 |-> r.page2]

\* the same call made on both drivers
Both(F(_)) == Unpack(F(Pack)) /\ RefUnpack(F(RefPack))

PairDone(name, x, y, v) ==
    /\ last_op' = Op(name, x, y, v)
    /\ before_invert' = NoInvert
    /\ pixels_only' = FALSE
    /\ UNCHANGED << lcd_mode, power_on, started, budget, tvars, tt_vars, ow_vars,
                    open_groups, time_vars, gr_vars >>

PairInit ==
    /\ ~started
    /\ Both(uc_lcd_init)
    /\ started' = TRUE
    /\ last_op' = Op("init", 0, 0, 0)
    /\ before_invert' = NoInvert
    /\ pixels_only' = TRUE
    /\ UNCHANGED << lcd_mode, power_on, ops, budget, tvars, tt_vars, ow_vars,
                    open_groups, time_vars, gr_vars >>

PairReset ==
    /\ started /\ ops < budget
    /\ Both(uc_lcd_reset)
    /\ ops' = ops + 1
    /\ PairDone("reset", 0, 0, 0)

PairClear ==
    /\ started /\ ops < budget
    /\ Both(uc_lcd_clear)
    /\ ops' = ops + 1
    /\ PairDone("clear", 0, 0, 0)

PairFill ==
    /\ started /\ ops < budget
    /\ Both(uc_lcd_fill)
    /\ ops' = ops + 1
    /\ PairDone("fill", 0, 0, 0)

PairSetInverted ==
    /\ started /\ ops < budget
    /\ \E invert \in InvertArgs :
          /\ Both(LAMBDA m : uc_lcd_set_inverted(m, invert))
          /\ PairDone("set_inverted", 0, 0, invert)
    /\ ops' = ops + 1

PairSetPixel ==
    /\ started /\ ops < budget
    /\ \E a \in PixelCalls :
          /\ Both(LAMBDA m : uc_lcd_set_pixel(m, a[1], a[2], a[3]))
          /\ PairDone("set_pixel", a[1], a[2], a[3])
    /\ ops' = ops + 1

PairEnterGrouped ==
    /\ started
    /\ uc_lcd_grouped_pixel_actions_level < MaxLevel
    /\ Both(uc_lcd_enter_grouped_pixel_changes)
    /\ ops' = ops
    /\ PairDone("enter", 0, 0, 0)

PairLeaveGrouped ==
    /\ started
    /\ uc_lcd_grouped_pixel_actions_level > 0
    /\ Both(uc_lcd_leave_grouped_pixel_changes)
    /\ ops' = ops
    /\ PairDone("leave", 0, 0, 0)

NextPair ==
    \/ PairInit
    \/ PairReset
    \/ PairClear
    \/ PairFill
    \/ PairSetInverted
    \/ PairSetPixel
    \/ PairEnterGrouped
    \/ PairLeaveGrouped

SpecPair == InitImmediate /\ [][NextPair]_vars

-----------------------------------------------------------------------------

(* Deep nesting of the grouping calls: every leave has its enter, and the  *)
(* number of groups that are open is counted beside the driver's counter. *)

MaxDepth == 256

InitDepth ==
    /\ InitDriver
    /\ lcd_mode = Immediate
    /\ dev = PowerOnDevice(0, 0, 165)
    /\ budget = 1
    /\ PinsIdle

LcdEnterDeep ==
    /\ started
    /\ open_groups < MaxDepth
    /\ Unpack(uc_lcd_enter_grouped_pixel_changes(Pack))
    /\ open_groups' = open_groups + 1
    /\ last_op' = Op("enter", 0, 0, 0)
    /\ before_invert' = NoInvert
    /\ pixels_only' = FALSE
    /\ UNCHANGED << lcd_mode, power_on, started, ops, budget, tvars, tt_vars, ow_vars,
                    ref, time_vars, gr_vars >>

LcdLeaveDeep ==
    /\ started
    /\ open_groups > 0
    /\ Unpack(uc_lcd_leave_grouped_pixel_changes(Pack))
    /\ open_groups' = open_groups - 1
    /\ last_op' = Op("leave", 0, 0, 0)
    /\ before_invert' = NoInvert
    /\ pixels_only' = FALSE
    /\ UNCHANGED << lcd_mode, power_on, started, ops, budget, tvars, tt_vars, ow_vars,
                    ref, time_vars, gr_vars >>

NextDepth ==
    \/ LcdInit
    \/ LcdEnterDeep
    \/ LcdLeaveDeep
    \/ LcdSetPixel

SpecDepth == InitDepth /\ [][NextDepth]_vars

-----------------------------------------------------------------------------

(* The calls below the API: on/off, start line, page, column and data byte. *)

StartlineArgs == {0, 5, 63, 200}
PageArgs == {0, 3, 7, 67}
ColumnArgs == {0, 5, 63, 200}
WriteArgs == {0, 165}

\* what every such call leaves behind
CallDone ==
    /\ pixels_only' = FALSE
    /\ before_invert' = NoInvert
    /\ ops' = ops + 1
    /\ UNCHANGED << lcd_mode, power_on, started, budget, tvars, tt_vars, ow_vars, more_vars >>

LcdTurnOn ==
    /\ started /\ ops < budget
    /\ Unpack(uc_lcd_turn_on(Pack))
    /\ last_op' = Op("turn_on", 0, 0, 0)
    /\ CallDone

LcdTurnOff ==
    /\ started /\ ops < budget
    /\ Unpack(uc_lcd_turn_off(Pack))
    /\ last_op' = Op("turn_off", 0, 0, 0)
    /\ CallDone

LcdSetStartline ==
    /\ started /\ ops < budget
    /\ \E l \in StartlineArgs :
          /\ Unpack(uc_lcd_set_startline(Pack, l))
          /\ last_op' = Op("set_startline", l, 0, 0)
    /\ CallDone

LcdSetPageChip1 ==
    /\ started /\ ops < budget
    /\ \E a \in PageArgs :
          /\ Unpack(uc_lcd_set_page_chip_1(Pack, a))
          /\ last_op' = Op("set_page_chip_1", a, 0, 0)
    /\ CallDone

LcdSetPageChip2 ==
    /\ started /\ ops < budget
    /\ \E a \in PageArgs :
          /\ Unpack(uc_lcd_set_page_chip_2(Pack, a))
          /\ last_op' = Op("set_page_chip_2", a, 0, 0)
    /\ CallDone

LcdSetColumnChip1 ==
    /\ started /\ ops < budget
    /\ \E a \in ColumnArgs :
          /\ Unpack(uc_lcd_set_column_chip_1(Pack, a))
          /\ last_op' = Op("set_column_chip_1", a, 0, 0)
    /\ CallDone

LcdSetColumnChip2 ==
    /\ started /\ ops < budget
    /\ \E a \in ColumnArgs :
          /\ Unpack(uc_lcd_set_column_chip_2(Pack, a))
          /\ last_op' = Op("set_column_chip_2", a, 0, 0)
    /\ CallDone

LcdWriteChip1 ==
    /\ started /\ ops < budget
    /\ \E a \in WriteArgs :
          /\ Unpack(uc_lcd_write_chip1(Pack, a))
          /\ last_op' = Op("write_chip1", a, 0, 0)
    /\ CallDone

LcdWriteChip2 ==
    /\ started /\ ops < budget
    /\ \E a \in WriteArgs :
          /\ Unpack(uc_lcd_write_chip2(Pack, a))
          /\ last_op' = Op("write_chip2", a, 0, 0)
    /\ CallDone

NextCommands ==
    \/ LcdInit
    \/ LcdTurnOn
    \/ LcdTurnOff
    \/ LcdSetStartline
    \/ LcdSetPageChip1
    \/ LcdSetPageChip2
    \/ LcdSetColumnChip1
    \/ LcdSetColumnChip2
    \/ LcdWriteChip1
    \/ LcdWriteChip2
    \/ LcdSetPixel

SpecCommands == Init /\ [][NextCommands]_vars

-----------------------------------------------------------------------------
(* Runs that change the frame buffer as a whole, in both draw modes. *)

NextContent ==
    \/ LcdInit
    \/ LcdSetPixel
    \/ LcdSetInverted
    \/ LcdClear
    \/ LcdFill

SpecContent == Init /\ [][NextContent]_vars

\* the pixels at the corners of the two chip halves, and the last row of chip 1
BoundaryCalls ==
    { <<0, 0, 1>>, <<63, 7, 1>>, <<64, 0, 1>>, <<127, 63, 1>>, <<63, 63, 1>>,
      <<63, 7, 0>>, <<127, 63, 0>> }

LcdSetPixelBoundary ==
    /\ started /\ ops < budget
    /\ \E a \in BoundaryCalls :
          /\ Unpack(uc_lcd_set_pixel(Pack, a[1], a[2], a[3]))
          /\ last_op' = Op("set_pixel", a[1], a[2], a[3])
          /\ pixels_only' = (pixels_only /\ uc_lcd_grouped_pixel_actions_level = 0)
    /\ before_invert' = NoInvert
    /\ ops' = ops + 1
    /\ UNCHANGED << lcd_mode, power_on, started, budget, tvars, tt_vars, ow_vars, more_vars >>

NextBoundary ==
    \/ LcdInit
    \/ LcdSetPixelBoundary
    \/ LcdSetInverted

SpecBoundary == Init /\ [][NextBoundary]_vars

\* one call more, to have a changed buffer inverted and inverted back
InitRoundTrip ==
    /\ InitDriver
    /\ budget = MaxOps + 1
    /\ PinsIdle

NextRoundTrip ==
    \/ LcdInit
    \/ LcdSetPixel
    \/ LcdSetInverted

SpecRoundTrip == InitRoundTrip /\ [][NextRoundTrip]_vars

-----------------------------------------------------------------------------
(* uc_lcd_send followed at pin level, for every data mode a build can have. *)

MaxSends == 2

Transports == {ParallelTogether, ParallelIndividual, Serial}

\* the values the three LCD_DMS_SR_BIT_ macros are tried with
SrBitChoices ==
    { SrBits(a, b, c) : a \in 0 .. MaxSrBit, b \in 0 .. MaxSrBit, c \in 0 .. MaxSrBit }

SendBytes == {0, 1, 85, 128, 170, 255}

\* the driver's own variables, last_op left out
driver_vars ==
    << lcd_mode, started, uc_lcd_buffer, uc_lcd_inverted,
       uc_lcd_current_column_chip1, uc_lcd_current_column_chip2,
       uc_lcd_current_page_chip1, uc_lcd_current_page_chip2,
       uc_lcd_grouped_pixel_actions_level, uc_lcd_data_changed,
       dev, power_on, sent, full_sends, pixels_only, ops, budget, before_invert >>

InitTransport ==
    /\ InitDriver
    /\ lcd_mode = Buffered
    /\ dev = PowerOnDevice(0, 0, 165)
    /\ budget = 0
    /\ transport \in Transports
    /\ sr_bits \in (IF transport = Serial THEN SrBitChoices ELSE {SrBits(0, 1, 2)})
    /\ build = "unchecked"
    /\ pins \in (IF transport = Serial THEN {PowerOnPins(0), PowerOnPins(1)}
                                      ELSE {PowerOnPins(0)})
    /\ request = <<0, 0, 0, 0>>
    /\ sends = 0
    /\ wave = << >>
    /\ TasksIdle
    /\ WireIdle
    /\ MoreIdle

\* the macro validation section: #error stops the build
Validate ==
    /\ build = "unchecked"
    /\ build' = IF transport = Serial /\ ~SrBitsAccepted(sr_bits) THEN "rejected" ELSE "accepted"
    /\ last_op' = Op("validate", 0, 0, 0)
    /\ UNCHANGED << driver_vars, transport, sr_bits, pins, request, sends, wave, tt_vars, ow_vars, more_vars >>

\* uc_lcd_init up to its uc_lcd_reset
PortSetup ==
    /\ build = "accepted"
    /\ build' = "running"
    /\ pins' = InitPorts(pins, transport)
    /\ last_op' = Op("port_setup", 0, 0, 0)
    /\ UNCHANGED << driver_vars, transport, sr_bits, request, sends, wave, tt_vars, ow_vars, more_vars >>

\* one uc_lcd_send(csel1, csel2, command_data, data)
Send ==
    /\ build = "running"
    /\ sends < MaxSends
    /\ \E csel1 \in {0, 1}, csel2 \in {0, 1}, command_data \in {0, 1}, data \in SendBytes :
          /\ pins' = SendPins(pins, transport, sr_bits, csel1, csel2, command_data, data)
          /\ wave' = WaveFrom(pins, SendWrites(transport, sr_bits, csel1, csel2,
                                               command_data, data),
                              1, transport, sr_bits)
          /\ request' = <<csel1, csel2, command_data, data>>
    /\ sends' = sends + 1
    /\ last_op' = Op("send", 0, 0, 0)
    /\ UNCHANGED << driver_vars, transport, sr_bits, build, tt_vars, ow_vars, more_vars >>

NextTransport ==
    \/ Validate
    \/ PortSetup
    \/ Send

SpecTransport == InitTransport /\ [][NextTransport]_vars

-----------------------------------------------------------------------------
(* The timed task library.  w is the record of the task buffer, the task   *)
(* structs, the time and the task functions invoked by the running call.   *)

MaxTtCalls == 4
MaxTime == 3

FlagSet(flags, bit) == Bit(flags, bit) = 1

TtActive(w, t) == FlagSet(w.task[t].flags, UC_TT_FLAG_BIT_ACTIVE_STATUS)

uc_tt_init(w) ==
    [w EXCEPT !.slots = [i \in 0 .. (UC_TT_TASK_BUFFER - 1) |-> NullTask]]

\* the first slot from i on that holds `task`, UC_TT_TASK_BUFFER if there is none
RECURSIVE FirstSlotWith(_, _, _)
FirstSlotWith(slots, task, i) ==
    IF i >= UC_TT_TASK_BUFFER THEN UC_TT_TASK_BUFFER
    ELSE IF slots[i] = task THEN i
    ELSE FirstSlotWith(slots, task, i + 1)

uc_tt_add_task(w, t) ==
    LET i == FirstSlotWith(w.slots, NullTask, 0)
    IN  IF i < UC_TT_TASK_BUFFER THEN [w EXCEPT !.slots[i] = t] ELSE w

uc_tt_deactivate_task(w, t) ==
    IF TtActive(w, t)
    THEN [w EXCEPT !.task[t].flags = ClearBit(@, UC_TT_FLAG_BIT_ACTIVE_STATUS)]
    ELSE w

uc_tt_remove_task(w, t) ==
    LET i == FirstSlotWith(w.slots, t, 0)
    IN  IF i < UC_TT_TASK_BUFFER
        THEN [uc_tt_deactivate_task(w, t) EXCEPT !.slots[i] = NullTask]
        ELSE w

RECURSIVE uc_tt_execute_task(_, _)
RECURSIVE uc_tt_activate_task(_, _)

\* (*task->function)(): the call is recorded with the flags and the time it finds;
\* a "reactivate" function calls uc_tt_activate_task on its own task.  w.frames holds
\* what the functions that have not returned yet found at their entry: a function
\* entered again in the state it was entered before repeats what it did then, so the
\* recursion has no end and the call of the library does not return (w.stuck).
TaskFunction(w, t) ==
    LET r == [w EXCEPT !.ran = Append(@, [task |-> t, flags |-> w.task[t].flags,
                                          time |-> w.now])]
        frame == [task |-> t, structs |-> w.task, slots |-> w.slots]
    IN  IF w.task[t].function = "reactivate"
        THEN IF \E k \in 1 .. Len(w.frames) : w.frames[k] = frame
             THEN [r EXCEPT !.stuck = TRUE]
             ELSE [uc_tt_activate_task([r EXCEPT !.frames = Append(@, frame)], t)
                      EXCEPT !.frames = w.frames]
        ELSE r

\* mutant: the task is deactivated after its function has run
ExecuteDeactivatesLate(w, t) ==
    IF TtActive(w, t)
    THEN LET a == [w EXCEPT !.task[t].last_executed_us = w.now]
             b == TaskFunction(a, t)
         IN  IF FlagSet(b.task[t].flags, UC_TT_FLAG_BIT_EXECUTE_ONLY_ONCE)
             THEN uc_tt_deactivate_task(b, t) ELSE b
    ELSE w

uc_tt_execute_task(w, t) ==
    IF TtActive(w, t)
    THEN LET a == [w EXCEPT !.task[t].last_executed_us = w.now]
             b == IF FlagSet(a.task[t].flags, UC_TT_FLAG_BIT_EXECUTE_ONLY_ONCE)
                  THEN uc_tt_deactivate_task(a, t) ELSE a
         IN  TaskFunction(b, t)
    ELSE w

\* mutant: the timer is not started
ActivateKeepsTime(w, t) ==
    IF ~TtActive(w, t)
    THEN LET a == [w EXCEPT !.task[t].flags = SetBit(@, UC_TT_FLAG_BIT_ACTIVE_STATUS)]
         IN  IF FlagSet(a.task[t].flags, UC_TT_FLAG_BIT_EXECUTE_WITHOUT_DELAY)
             THEN uc_tt_execute_task(a, t)
             ELSE a
    ELSE w

uc_tt_activate_task(w, t) ==
    IF ~TtActive(w, t)
    THEN LET a == [w EXCEPT !.task[t].flags = SetBit(@, UC_TT_FLAG_BIT_ACTIVE_STATUS)]
         IN  IF FlagSet(a.task[t].flags, UC_TT_FLAG_BIT_EXECUTE_WITHOUT_DELAY)
             THEN uc_tt_execute_task(a, t)
             ELSE [a EXCEPT !.task[t].last_executed_us = a.now]
    ELSE w

\* the body of the loop of uc_tt_update for slot i
UpdateSlot(w, i) ==
    LET current_time == w.now
        current_task == w.slots[i]
    IN  IF current_task > 0
        THEN IF TtActive(w, current_task)
             THEN IF current_time - w.task[current_task].last_executed_us
                         > w.task[current_task].interval_us
                  THEN uc_tt_execute_task(w, current_task)
                  ELSE w
             ELSE w
        ELSE w

RECURSIVE UpdateFrom(_, _)
UpdateFrom(w, i) ==
    IF i >= UC_TT_TASK_BUFFER \/ w.stuck THEN w ELSE UpdateFrom(UpdateSlot(w, i), i + 1)

uc_tt_update(w) == UpdateFrom(w, 0)

(* The state machine of the timed task library. *)

TtPack ==
    [ slots |-> uc_tt_tasks, task |-> tt_task, now |-> tt_now, ran |-> << >>,
      frames |-> << >>, stuck |-> FALSE ]

TtUnpack(w) ==
    /\ uc_tt_tasks' = w.slots
    /\ tt_task' = w.task
    /\ tt_ran' = w.ran
    /\ tt_stuck' = w.stuck

\* the structs as the application defines them: any of the two behaviour flags, the
\* active flag clear.  A function that activates its own task is given to tasks
\* without EXECUTE_WITHOUT_DELAY only: with that flag the activation would call the
\* function again from inside itself, without end.
TaskStructs ==
    { [flags |-> f, interval_us |-> 2, last_executed_us |-> 0, function |-> fn] :
        f \in {0, 2, 4, 6}, fn \in {"plain"} }
    \cup
    { [flags |-> f, interval_us |-> 2, last_executed_us |-> 0, function |-> "reactivate"] :
        f \in {0, 4} }

\* the application before its first call of the library; the structs are still to
\* be chosen
TaskLibraryStart ==
    /\ InitDriver
    /\ lcd_mode = Buffered
    /\ dev = PowerOnDevice(0, 0, 165)
    /\ budget = 0
    /\ transport = Serial
    /\ sr_bits = SrBits(0, 1, 2)
    /\ build = "accepted"
    /\ pins = PowerOnPins(0)
    /\ request = <<0, 0, 0, 0>>
    /\ sends = 0
    /\ wave = << >>
    /\ WireIdle
    /\ MoreIdle
    /\ uc_tt_tasks = [i \in 0 .. (UC_TT_TASK_BUFFER - 1) |-> NullTask]
    /\ tt_now = 0
    /\ tt_ran = << >>
    /\ tt_last = NoCall
    /\ tt_calls = 0
    /\ tt_stuck = FALSE

InitTasks ==
    /\ TaskLibraryStart
    /\ tt_task \in [Tasks -> TaskStructs]
    /\ tt_task[2] = [flags |-> 0, interval_us |-> 2, last_executed_us |-> 0,
                     function |-> "plain"]

\* a function that activates its own task, with each combination of the two flags
SelfActivatingStructs ==
    { [flags |-> f, interval_us |-> 2, last_executed_us |-> 0, function |-> "reactivate"] :
        f \in {0, 2, 4, 6} }

InitSelfActivating ==
    /\ TaskLibraryStart
    /\ tt_task \in [Tasks -> TaskStructs \cup SelfActivatingStructs]
    /\ tt_task[2] = [flags |-> 0, interval_us |-> 2, last_executed_us |-> 0,
                     function |-> "plain"]

TtCallDone(op, t) ==
    /\ ~tt_stuck
    /\ tt_last' = [op |-> op, task |-> t]
    /\ tt_calls' = tt_calls + 1
    /\ UNCHANGED << tt_now, driver_vars, last_op, tvars, ow_vars, more_vars >>

TtInit ==
    /\ tt_calls < MaxTtCalls
    /\ TtUnpack(uc_tt_init(TtPack))
    /\ TtCallDone("init", NullTask)

TtAddTask ==
    /\ tt_calls < MaxTtCalls
    /\ \E t \in Tasks :
          /\ TtUnpack(uc_tt_add_task(TtPack, t))
          /\ TtCallDone("add", t)

TtActivateTask ==
    /\ tt_calls < MaxTtCalls
    /\ \E t \in Tasks :
          /\ TtUnpack(uc_tt_activate_task(TtPack, t))
          /\ TtCallDone("activate", t)

TtDeactivateTask ==
    /\ tt_calls < MaxTtCalls
    /\ \E t \in Tasks :
          /\ TtUnpack(uc_tt_deactivate_task(TtPack, t))
          /\ TtCallDone("deactivate", t)

TtRemoveTask ==
    /\ tt_calls < MaxTtCalls
    /\ \E t \in Tasks :
          /\ TtUnpack(uc_tt_remove_task(TtPack, t))
          /\ TtCallDone("remove", t)

TtUpdate ==
    /\ tt_calls < MaxTtCalls
    /\ TtUnpack(uc_tt_update(TtPack))
    /\ TtCallDone("update", NullTask)

\* the timer interrupt moves the time on, between the calls
TtTick ==
    /\ tt_now < MaxTime
    /\ tt_now' = tt_now + 1
    /\ UNCHANGED << uc_tt_tasks, tt_task, tt_ran, tt_last, tt_calls, tt_stuck,
                    driver_vars, last_op, tvars, ow_vars, more_vars >>

NextTasks ==
    \/ TtInit
    \/ TtAddTask
    \/ TtActivateTask
    \/ TtDeactivateTask
    \/ TtRemoveTask
    \/ TtUpdate
    \/ TtTick

SpecTasks == InitTasks /\ [][NextTasks]_vars

SpecSelfActivating == InitSelfActivating /\ [][NextTasks]_vars

-----------------------------------------------------------------------------
(* The time library: the 64-bit counter time_us, the TIMER0 compare        *)
(* interrupt that advances it, and Time_Get, which an 8-bit AVR runs as    *)
(* eight single-byte loads with no interrupt lock around them.             *)

\* the clock rate the build is made for: 1 MHz, the rate an ATmega328P is shipped with
F_CPU == 1000000

\* (1000000ULL * 64ULL * 128ULL)/F_CPU; 64 is cancelled against the clock rate to keep
\* the product within 32 bits
US_PER_COMPARE_A == (15625 * 64 * 128) \div (F_CPU \div 64)

MaxIsrs == 9
MaxTimeCalls == 2

\* 64-bit addition byte by byte from byte i on, the carry out of byte 7 dropped
RECURSIVE AddFrom(_, _, _)
AddFrom(bytes, n, i) ==
    IF i > 7 THEN bytes
    ELSE LET sum == bytes[i] + (n % Uint8)
         IN  AddFrom([bytes EXCEPT ![i] = sum % Uint8], (n \div Uint8) + (sum \div Uint8), i + 1)

\* time_us += US_PER_COMPARE_A
TimeAdd(bytes, n) == AddFrom(bytes, n, 0)

\* a <= b as unsigned 64-bit numbers, compared from byte i down
RECURSIVE TimeLeqFrom(_, _, _)
TimeLeqFrom(a, b, i) ==
    IF i < 0 THEN TRUE
    ELSE IF a[i] # b[i] THEN a[i] < b[i]
    ELSE TimeLeqFrom(a, b, i - 1)

TimeLeq(a, b) == TimeLeqFrom(a, b, 7)

\* the orders in which a build may load the eight bytes of the volatile object
LoadOrders == {"ascending", "descending"}

\* the byte the k-th load (k = 0 .. 7) reads
LoadedByte(order, k) == IF order = "ascending" THEN k ELSE 7 - k

\* the 64-bit value made of the eight loaded bytes
Loaded(order, bytes) == [i \in 0 .. 7 |-> bytes[1 + LoadedByte(order, i)]]

\* the other libraries are not used
LcdAtRest ==
    /\ InitDriver
    /\ lcd_mode = Buffered
    /\ dev = PowerOnDevice(0, 0, 165)
    /\ budget = 0
    /\ transport = Serial
    /\ sr_bits = SrBits(0, 1, 2)
    /\ build = "accepted"
    /\ pins = PowerOnPins(0)
    /\ request = <<0, 0, 0, 0>>
    /\ sends = 0
    /\ wave = << >>
    /\ LcdExtrasIdle

\* after Time_Init() and sei()
InitTime ==
    /\ LcdAtRest
    /\ TasksIdle
    /\ WireIdle
    /\ LineIdle
    /\ time_us = ZeroTime
    /\ tg_order \in LoadOrders
    /\ tg_pc = 0
    /\ tg_bytes = << >>
    /\ tg_held = {}
    /\ tg_result = ZeroTime
    /\ tg_prev = ZeroTime
    /\ tg_calls = 0
    /\ isrs = 0

\* what the actions of the time library leave alone
time_rest == << driver_vars, last_op, tvars, tt_vars, ow_vars, ref, open_groups, gr_vars >>

\* Time_Get is entered
TimeGetCall ==
    /\ tg_pc = 0
    /\ tg_calls < MaxTimeCalls
    /\ tg_pc' = 1
    /\ tg_bytes' = << >>
    /\ tg_held' = {time_us}
    /\ UNCHANGED << time_us, tg_order, tg_result, tg_prev, tg_calls, isrs, time_rest >>

\* one of the eight loads
TimeGetLoad ==
    /\ tg_pc \in 1 .. 8
    /\ tg_bytes' = Append(tg_bytes, time_us[LoadedByte(tg_order, tg_pc - 1)])
    /\ tg_pc' = tg_pc + 1
    /\ UNCHANGED << time_us, tg_order, tg_held, tg_result, tg_prev, tg_calls, isrs,
                    time_rest >>

\* return of the loaded value
TimeGetReturn ==
    /\ tg_pc = 9
    /\ tg_result' = Loaded(tg_order, tg_bytes)
    /\ tg_prev' = tg_result
    /\ tg_pc' = 0
    /\ tg_calls' = tg_calls + 1
    /\ UNCHANGED << time_us, tg_order, tg_bytes, tg_held, isrs, time_rest >>

\* ISR(TIMER0_COMPA_vect), between any two instructions of the main program
TimerInterrupt ==
    /\ isrs < MaxIsrs
    /\ time_us' = TimeAdd(time_us, US_PER_COMPARE_A)
    /\ isrs' = isrs + 1
    /\ tg_held' = IF tg_pc > 0 THEN tg_held \cup {time_us'} ELSE tg_held
    /\ UNCHANGED << tg_order, tg_pc, tg_bytes, tg_result, tg_prev, tg_calls, time_rest >>

NextTime ==
    \/ TimeGetCall
    \/ TimeGetLoad
    \/ TimeGetReturn
    \/ TimerInterrupt

SpecTime == InitTime /\ [][NextTime]_vars

-----------------------------------------------------------------------------

(* The line functions of the graphics library.  uc_graphics_draw_line      *)
(* hands the call on to one of two line functions, the end points swapped *)
(* for the right-to-left directions; each loop round is a step.  What the *)
(* LCD_API_SET_PIXEL calls do to the display is the driver's part above.  *)

\* the coordinates the calls are tried with
LineCoords == {0, 2, 255}

MaxLineCalls == 300

LeftTopRightBottom == "uc_graphics_draw_line_left_top_right_bottom"
LeftBottomRightTop == "uc_graphics_draw_line_left_bottom_right_top"

\* the value an int16_t keeps of v (two's complement, as avr-gcc computes)
Int16(v) == ((v + 32768) % 65536) - 32768

\* the quotient of the C division: truncated towards 0
TruncDiv(a, b) ==
    LET q == (IF a < 0 THEN -a ELSE a) \div (IF b < 0 THEN -b ELSE b)
    IN  IF (a < 0) = (b < 0) THEN q ELSE -q

\* uc_graphics_draw_line: the line function called and the arguments it is given
LineFunction(x1, y1, x2, y2, pixel) ==
    IF x1 < x2
    THEN IF y1 < y2
         THEN [fn |-> LeftTopRightBottom, args |-> <<x1, y1, x2, y2, pixel>>]
         ELSE [fn |-> LeftBottomRightTop, args |-> <<x1, y1, x2, y2, pixel>>]
    ELSE IF y1 < y2
         THEN [fn |-> LeftBottomRightTop, args |-> <<x2, y2, x1, y1, pixel>>]
         ELSE [fn |-> LeftTopRightBottom, args |-> <<x2, y2, x1, y1, pixel>>]

\* the branch a line function takes and the first value of its loop variable
LineBranch(fn, a) ==
    LET x1 == a[1]  y1 == a[2]  x2 == a[3]  y2 == a[4]
    IN  IF x1 = x2 /\ y1 = y2 THEN [pc |-> "point", i |-> 0]
        ELSE IF x1 = x2
             THEN [pc |-> "vertical", i |-> IF fn = LeftTopRightBottom THEN y1 ELSE y2]
        ELSE IF y1 = y2 THEN [pc |-> "horizontal", i |-> x1]
        ELSE IF fn = LeftTopRightBottom
             THEN IF y2 - y1 > x2 - x1 THEN [pc |-> "steep", i |-> y1]
                                       ELSE [pc |-> "shallow", i |-> x1]
             ELSE IF x2 - x1 < y1 - y2 THEN [pc |-> "steep", i |-> y2]
                                       ELSE [pc |-> "shallow", i |-> x1]

\* the value the loop variable is compared with: the end coordinate + 1, computed as
\* int, so 256 for the end coordinate 255
LineEnd(fn, pc, a) ==
    IF pc = "vertical" THEN (IF fn = LeftTopRightBottom THEN a[4] ELSE a[2]) + 1
    ELSE IF pc = "horizontal" THEN a[3] + 1
    ELSE IF pc = "steep" THEN (IF fn = LeftTopRightBottom THEN a[4] ELSE a[2]) + 1
    ELSE a[3] + 1

\* the LCD_API_SET_PIXEL call of a loop round: the int16_t results are passed to
\* uint8_t parameters
LinePixel(pc, a, i) ==
    LET x1 == a[1]  y1 == a[2]  x2 == a[3]  y2 == a[4]
    IN  IF pc = "point" THEN <<x1, y1, a[5]>>
        ELSE IF pc = "vertical" THEN <<x1, i, a[5]>>
        ELSE IF pc = "horizontal" THEN <<i, y1, a[5]>>
        ELSE IF pc = "steep"
             THEN << Int16(TruncDiv(Int16((x2 - x1) * (i - y1)), y2 - y1) + x1) % Uint8,
                     i % Uint8, a[5] >>
        ELSE << i % Uint8,
                Int16(TruncDiv(Int16((y2 - y1) * (i - x1)), x2 - x1) + y1) % Uint8, a[5] >>

\* the loop variable after ++: uint8_t in the two straight loops, int16_t in the others
LineNext(pc, i) == IF pc \in {"vertical", "horizontal"} THEN (i + 1) % Uint8 ELSE Int16(i + 1)

InitLine ==
    /\ LcdAtRest
    /\ TasksIdle
    /\ WireIdle
    /\ TimeIdle
    /\ LineIdle

\* what the line functions leave alone
line_rest == << driver_vars, last_op, tvars, tt_vars, ow_vars, ref, open_groups, time_vars >>

\* uc_graphics_draw_line(x1, y1, x2, y2, 1) up to the first loop test
DrawLineCall ==
    /\ gr_pc = "idle"
    /\ \E x1 \in LineCoords, y1 \in LineCoords, x2 \in LineCoords, y2 \in LineCoords :
          LET f == LineFunction(x1, y1, x2, y2, 1)
              b == LineBranch(f.fn, f.args)
          IN  /\ gr_fn' = f.fn
              /\ gr_args' = f.args
              /\ gr_pc' = b.pc
              /\ gr_i' = b.i
    /\ gr_pixel' = << >>
    /\ gr_steps' = 0
    /\ UNCHANGED line_rest

\* one loop test; the loop body with its LCD_API_SET_PIXEL call if the test holds,
\* the return if it does not
DrawLineStep ==
    /\ gr_pc \in {"point", "vertical", "horizontal", "steep", "shallow"}
    /\ IF gr_pc = "point"
       THEN /\ gr_pixel' = LinePixel(gr_pc, gr_args, gr_i)
            /\ gr_steps' = gr_steps + 1
            /\ gr_pc' = "done"
            /\ gr_i' = gr_i
       ELSE IF gr_i < LineEnd(gr_fn, gr_pc, gr_args)
       THEN /\ gr_pixel' = LinePixel(gr_pc, gr_args, gr_i)
            /\ gr_steps' = IF gr_steps < MaxLineCalls THEN gr_steps + 1 ELSE gr_steps
            /\ gr_i' = LineNext(gr_pc, gr_i)
            /\ gr_pc' = gr_pc
       ELSE /\ gr_pc' = "done"
            /\ UNCHANGED << gr_pixel, gr_steps, gr_i >>
    /\ UNCHANGED << gr_fn, gr_args, line_rest >>

NextLine ==
    \/ DrawLineCall
    \/ DrawLineStep

SpecLine == InitLine /\ [][NextLine]_vars

\* the processor keeps running the call
SpecLineRunning == SpecLine /\ WF_vars(DrawLineStep)

-----------------------------------------------------------------------------

(* The one-wire library: the byte functions over the bit functions, and the *)
(* bit functions statement by statement.                                    *)

\* for ( i = 0; i < 8; i++ ): a 1 bit goes out as ow_write_1, a 0 bit as ow_write_0,
\* then byte >>= 1
RECURSIVE SendByteFrom(_, _)
SendByteFrom(byte, i) ==
    IF i >= 8 THEN << >>
    ELSE << IF byte % 2 = 1 THEN "ow_write_1" ELSE "ow_write_0" >>
             \o SendByteFrom(byte \div 2, i + 1)

ow_send_byte(byte) == SendByteFrom(byte, 0)

\* what ow_read_bit returns in a slot in which the slave answers as the slot `slot`
\* was written: the line is released early in a write-1 slot and held low in a
\* write-0 slot
SlotBit(slot) == IF slot = "ow_write_1" THEN 1 ELSE 0

\* mutant: the bits are shifted in from the right
RECURSIVE ReadByteShiftLeft(_, _, _)
ReadByteShiftLeft(bits, read, i) ==
    IF i >= 8 THEN read
    ELSE ReadByteShiftLeft(bits, ((read * 2) % Uint8) + bits[i + 1], i + 1)

\* for ( i = 0; i < 8; i++ ): if ( i > 0 ) read >>= 1; if ( bit ) read |= 0b10000000
RECURSIVE ReadByteFrom(_, _, _)
ReadByteFrom(bits, read, i) ==
    IF i >= 8 THEN read
    ELSE LET shifted == IF i > 0 THEN read \div 2 ELSE read
             with_bit == IF bits[i + 1] # 0 THEN Or8(shifted, 128) ELSE shifted
         IN  ReadByteFrom(bits, with_bit, i + 1)

ow_read_byte(bits) == ReadByteFrom(bits, 0, 0)

\* every byte is sent and read back
InitWireBytes ==
    /\ InitDriver
    /\ lcd_mode = Buffered
    /\ dev = PowerOnDevice(0, 0, 165)
    /\ budget = 0
    /\ transport = Serial
    /\ sr_bits = SrBits(0, 1, 2)
    /\ build = "accepted"
    /\ pins = PowerOnPins(0)
    /\ request = <<0, 0, 0, 0>>
    /\ sends = 0
    /\ wave = << >>
    /\ TasksIdle
    /\ MoreIdle
    /\ WireAtRest
    /\ ow_timing = OW_TIMING_PRECISE
    /\ sreg_i = 0
    /\ ow_byte \in 0 .. (Uint8 - 1)
    /\ ow_slots = << >>
    /\ ow_result = 0

OwSendByte ==
    /\ ow_calls = 0
    /\ ow_slots' = ow_send_byte(ow_byte)
    /\ ow_calls' = 1
    /\ UNCHANGED << ow_timing, ow_fn, ow_pc, sreg_i, ow_ie, ow_entry_i, ow_bus,
                    ow_window, ow_irqs, ow_byte, ow_result,
                    driver_vars, last_op, tvars, tt_vars, more_vars >>

\* the slave answers the eight read slots with what it got in the eight write slots
OwReadByte ==
    /\ ow_calls = 1
    /\ ow_result' = ow_read_byte([k \in 1 .. 8 |-> SlotBit(ow_slots[k])])
    /\ ow_calls' = 2
    /\ UNCHANGED << ow_timing, ow_fn, ow_pc, sreg_i, ow_ie, ow_entry_i, ow_bus,
                    ow_window, ow_irqs, ow_byte, ow_slots,
                    driver_vars, last_op, tvars, tt_vars, more_vars >>

NextWireBytes ==
    \/ OwSendByte
    \/ OwReadByte

SpecWireBytes == InitWireBytes /\ [][NextWireBytes]_vars

(* The bit functions. *)

MaxOwCalls == 2

BitFunctions == {"ow_reset", "ow_write_0", "ow_write_1", "ow_read_bit"}

\* the statements of a function in a build with OW_TIMING_PRECISE
PreciseStatements(fn) ==
    IF fn \in {"ow_reset", "ow_read_bit"}
    THEN << "save_cli", "pull_low", "delay", "release", "delay", "sample", "delay",
            "restore" >>
    ELSE << "save_cli", "pull_low", "delay", "release", "delay", "restore" >>

\* the statements of a function in a build with OW_TIMING_APPROXIMATELY
ApproximateStatements(fn) ==
    IF fn = "ow_reset"
    THEN << "pull_low", "delay", "release", "save_cli", "delay", "sample", "restore",
            "delay" >>
    ELSE IF fn = "ow_write_0"
    THEN << "pull_low", "delay", "release", "delay" >>
    ELSE IF fn = "ow_write_1"
    THEN << "save_cli", "pull_low", "delay", "release", "restore", "delay" >>
    ELSE << "save_cli", "pull_low", "delay", "release", "delay", "sample", "restore",
            "delay" >>

Statements(fn, timing) ==
    IF timing = OW_TIMING_PRECISE THEN PreciseStatements(fn) ELSE ApproximateStatements(fn)

\* the statement is the last _delay_us of the function
IsLastDelay(statements, pc) ==
    /\ statements[pc] = "delay"
    /\ \A k \in (pc + 1) .. Len(statements) : statements[k] # "delay"

\* mutant: sei() whatever ie holds
RestoreAlwaysEnables(ie, i) == 1

\* if ( ie ) sei();
RestoreInterrupts(ie, i) == IF ie # 0 THEN 1 ELSE i

InitWireBits ==
    /\ InitDriver
    /\ lcd_mode = Buffered
    /\ dev = PowerOnDevice(0, 0, 165)
    /\ budget = 0
    /\ transport = Serial
    /\ sr_bits = SrBits(0, 1, 2)
    /\ build = "accepted"
    /\ pins = PowerOnPins(0)
    /\ request = <<0, 0, 0, 0>>
    /\ sends = 0
    /\ wave = << >>
    /\ TasksIdle
    /\ MoreIdle
    /\ WireAtRest
    /\ ow_timing \in {OW_TIMING_PRECISE, OW_TIMING_APPROXIMATELY}
    /\ sreg_i \in {0, 1}
    /\ ow_byte = 0
    /\ ow_slots = << >>
    /\ ow_result = 0

\* the application calls one of the bit functions
OwCall ==
    /\ ow_fn = "none"
    /\ ow_calls < MaxOwCalls
    /\ ow_fn' \in BitFunctions
    /\ ow_pc' = 1
    /\ ow_entry_i' = sreg_i
    /\ ow_window' = "before"
    /\ ow_irqs' = 0
    /\ UNCHANGED << ow_timing, sreg_i, ow_ie, ow_bus, ow_byte, ow_slots, ow_result,
                    ow_calls, driver_vars, last_op, tvars, tt_vars, more_vars >>

\* the running function executes its next statement
OwStatement ==
    /\ ow_fn # "none"
    /\ ow_pc <= Len(Statements(ow_fn, ow_timing))
    /\ LET statements == Statements(ow_fn, ow_timing)
           statement == statements[ow_pc]
       IN  /\ ow_ie' = IF statement = "save_cli" THEN sreg_i ELSE ow_ie
           /\ sreg_i' = IF statement = "save_cli" THEN 0
                        ELSE IF statement = "restore" THEN RestoreInterrupts(ow_ie, sreg_i)
                        ELSE sreg_i
           /\ ow_bus' = IF statement = "pull_low" THEN "low"
                        ELSE IF statement = "release" THEN "released"
                        ELSE ow_bus
           /\ ow_window' = IF statement = "pull_low" /\ ow_window = "before" THEN "open"
                           ELSE IF IsLastDelay(statements, ow_pc) THEN "closed"
                           ELSE ow_window
           /\ IF statement = "sample"
              THEN ow_result' \in {0, 1}
              ELSE ow_result' = ow_result
    /\ ow_pc' = ow_pc + 1
    /\ UNCHANGED << ow_timing, ow_fn, ow_entry_i, ow_irqs, ow_byte, ow_slots, ow_calls,
                    driver_vars, last_op, tvars, tt_vars, more_vars >>

\* the running function returns
OwReturn ==
    /\ ow_fn # "none"
    /\ ow_pc > Len(Statements(ow_fn, ow_timing))
    /\ ow_fn' = "none"
    /\ ow_pc' = 0
    /\ ow_calls' = ow_calls + 1
    /\ UNCHANGED << ow_timing, sreg_i, ow_ie, ow_entry_i, ow_bus, ow_window, ow_irqs,
                    ow_byte, ow_slots, ow_result, driver_vars, last_op, tvars, tt_vars, more_vars >>

\* an interrupt is served while the function runs: possible only with the bit set;
\* the first one served between the first pull low and the end of the last delay is
\* recorded
OwInterrupt ==
    /\ ow_fn # "none"
    /\ sreg_i = 1
    /\ ow_window = "open"
    /\ ow_irqs = 0
    /\ ow_irqs' = 1
    /\ UNCHANGED << ow_timing, ow_fn, ow_pc, sreg_i, ow_ie, ow_entry_i, ow_bus,
                    ow_window, ow_byte, ow_slots, ow_result, ow_calls,
                    driver_vars, last_op, tvars, tt_vars, more_vars >>

\* between the calls the application does sei() or cli()
OwApplicationSetsFlag ==
    /\ ow_fn = "none"
    /\ ow_calls < MaxOwCalls
    /\ sreg_i' = 1 - sreg_i
    /\ UNCHANGED << ow_timing, ow_fn, ow_pc, ow_ie, ow_entry_i, ow_bus, ow_window,
                    ow_irqs, ow_byte, ow_slots, ow_result, ow_calls,
                    driver_vars, last_op, tvars, tt_vars, more_vars >>

NextWireBits ==
    \/ OwCall
    \/ OwStatement
    \/ OwReturn
    \/ OwInterrupt
    \/ OwApplicationSetsFlag

SpecWireBits == InitWireBits /\ [][NextWireBits]_vars

-----------------------------------------------------------------------------
(* Properties *)

InRange(x, y) == x <= 127 /\ y <= 63

\* the step is a call of uc_lcd_set_pixel
PixelStep == last_op'.op = "set_pixel"

\* the device RAM of both chips holds the frame buffer
DeviceMirrorsBuffer ==
    \A i \in 0 .. 511 :
        /\ dev.ram[1][i] = uc_lcd_buffer[i]
        /\ dev.ram[2][i] = uc_lcd_buffer[512 + i]

\* the display's registers agreed with the zeroed cache when uc_lcd_init ran
PowerOnSynced == power_on.page = <<0, 0>> /\ power_on.col = <<0, 0>>

\* C1: an in-range uc_lcd_set_pixel(x, y, v) makes bit y mod 8 of byte
\* (x mod 64) + (y div 8)*64 + (512 if x >= 64) equal to v, or to NOT v when the
\* inversion flag is set, and changes no other bit of the 1024 bytes.
C1_SetPixelAddressMapping ==
    [][ (PixelStep /\ InRange(last_op'.x, last_op'.y)) =>
            LET x == last_op'.x
                y == last_op'.y
                v == last_op'.v
                index == (x % 64) + ((y \div 8) * 64) + (IF x >= 64 THEN 512 ELSE 0)
                stored == IF uc_lcd_inverted = 0 THEN v ELSE 1 - v
            IN  /\ Bit(uc_lcd_buffer'[index], y % 8) = stored
                /\ \A b \in 0 .. 7 :
                       b # y % 8 => Bit(uc_lcd_buffer'[index], b) = Bit(uc_lcd_buffer[index], b)
                /\ \A i \in 0 .. 1023 : i # index => uc_lcd_buffer'[i] = uc_lcd_buffer[i]
      ]_vars

\* C1 witness: pixel (127, 63) was set to 1 under inversion: bit 7 of byte 1023 is 0
C1_Witness ==
    /\ last_op = Op("set_pixel", 127, 63, 1)
    /\ uc_lcd_inverted # 0
    /\ Bit(uc_lcd_buffer[1023], 7) = 0
    /\ Bit(uc_lcd_buffer[1023], 6) = 1

\* C2: uc_lcd_set_pixel with x >= 128 or y >= 64 changes nothing: not the frame
\* buffer, not the dirty flag, not the address cache or the grouping counter, and
\* nothing is sent.
C2_OutOfRangeIsNoOp ==
    [][ (PixelStep /\ ~InRange(last_op'.x, last_op'.y)) =>
            /\ uc_lcd_buffer' = uc_lcd_buffer
            /\ uc_lcd_inverted' = uc_lcd_inverted
            /\ uc_lcd_data_changed' = uc_lcd_data_changed
            /\ uc_lcd_current_column_chip1' = uc_lcd_current_column_chip1
            /\ uc_lcd_current_column_chip2' = uc_lcd_current_column_chip2
            /\ uc_lcd_current_page_chip1' = uc_lcd_current_page_chip1
            /\ uc_lcd_current_page_chip2' = uc_lcd_current_page_chip2
            /\ uc_lcd_grouped_pixel_actions_level' = uc_lcd_grouped_pixel_actions_level
            /\ sent' = << >>
            /\ dev' = dev
      ]_vars

\* C2 witness: a call with y = 64 was made on a changed buffer that had no unflushed
\* write, and the dirty flag is still clear
C2_Witness ==
    /\ last_op = Op("set_pixel", 5, 64, 1)
    /\ lcd_mode = Buffered
    /\ uc_lcd_data_changed = 0
    /\ uc_lcd_buffer[5] = 8
    /\ ops = 2

\* the last call ran uc_lcd_send_buffer_to_lcd
FullSendDone == started /\ full_sends > 0

\* C3: immediate mode, display registers in step with the cache at uc_lcd_init, only
\* in-range uc_lcd_set_pixel calls at grouping level 0 since: each call stores its
\* data byte in the RAM cell (page y div 8, column x mod 64) of the target chip, which
\* then equals the frame buffer byte, and changes no other RAM cell.
C3_WriteThroughHitsCell ==
    [][ ( /\ lcd_mode = Immediate
          /\ PowerOnSynced
          /\ pixels_only
          /\ uc_lcd_grouped_pixel_actions_level = 0
          /\ PixelStep
          /\ InRange(last_op'.x, last_op'.y) ) =>
            LET x == last_op'.x
                y == last_op'.y
                chip == IF x < 64 THEN 1 ELSE 2
                cell == ((y \div 8) * 64) + (x % 64)
                index == cell + (IF chip = 2 THEN 512 ELSE 0)
            IN  /\ dev'.ram[chip][cell] = uc_lcd_buffer'[index]
                /\ \A n \in 1 .. 2 : \A i \in 0 .. 511 :
                       (n # chip \/ i # cell) => dev'.ram[n][i] = dev.ram[n][i]
      ]_vars

\* C4: immediate mode, display registers in step with the cache at uc_lcd_init:
\* after a call of clear, fill, set_inverted or leave that sent the whole buffer,
\* the RAM of both chips holds the frame buffer.
C4_FullSendMirrorsBuffer ==
    ( /\ lcd_mode = Immediate
      /\ PowerOnSynced
      /\ FullSendDone
      /\ last_op.op \in {"clear", "fill", "set_inverted", "leave"} )
        => DeviceMirrorsBuffer

\* C5: after a call that sent the whole buffer, uc_lcd_reset included, the page and
\* column registers of both chips are 0 (display registers in step with the cache
\* at uc_lcd_init).
C5_FullSendLeavesRegistersZero ==
    (PowerOnSynced /\ FullSendDone) =>
        (dev.page = <<0, 0>> /\ dev.col = <<0, 0>>)

\* the unit (csel1, csel2, command/data, byte) at place k of a whole-buffer send of buf:
\* set column 0; for each page its set page and 64 data bytes; the same for chip 2;
\* then set page 0 for chip 1 and for chip 2
ExpectedUnit(buf, k) ==
    IF k = 1043 THEN <<1, 0, 0, 184>>
    ELSE IF k = 1044 THEN <<0, 1, 0, 184>>
    ELSE LET chip == ((k - 1) \div 521) + 1
             j == (k - 1) % 521
             p == (j - 1) \div 65
             r == (j - 1) % 65
             c1 == IF chip = 1 THEN 1 ELSE 0
             c2 == IF chip = 2 THEN 1 ELSE 0
         IN  IF j = 0 THEN <<c1, c2, 0, 64>>
             ELSE IF r = 0 THEN <<c1, c2, 0, 184 + p>>
             ELSE <<c1, c2, 1, buf[((chip - 1) * 512) + (p * 64) + (r - 1)]>>

ExpectedFullSend(buf) == [k \in 1 .. 1044 |-> ExpectedUnit(buf, k)]

\* the display data bytes among the units, in the order sent
DataBytes(units) ==
    LET data == SelectSeq(units, LAMBDA u : u[3] = 1)
    IN  [k \in 1 .. Len(data) |-> data[k][4]]

\* C6: buffered mode: uc_lcd_flush sends the whole buffer exactly when the dirty flag
\* is set, and leaves the flag clear; a flush that directly follows a flush sends
\* nothing.
C6_FlushOnlyWhenDirty ==
    [][ (lcd_mode = Buffered /\ last_op'.op = "flush") =>
            /\ uc_lcd_data_changed' = 0
            /\ uc_lcd_data_changed # 0 =>
                   /\ full_sends' = 1
                   /\ DataBytes(sent') = [k \in 1 .. 1024 |-> uc_lcd_buffer[k - 1]]
            /\ uc_lcd_data_changed = 0 => (full_sends' = 0 /\ sent' = << >>)
            /\ last_op.op = "flush" => (full_sends' = 0 /\ sent' = << >>)
      ]_vars

\* C6 witness: after uc_lcd_init, set_pixel(5,3,1) and two flush calls: the first
\* flush brought the byte to the display, the second one sent nothing
C6_Witness ==
    /\ lcd_mode = Buffered
    /\ last_op.op = "flush"
    /\ ops = 1
    /\ uc_lcd_buffer[5] = 8
    /\ dev.ram[1][5] = 8
    /\ sent = << >>

\* C7: buffered mode, after uc_lcd_init: whenever the dirty flag is clear the RAM of
\* both chips holds the frame buffer; and the flag is only ever cleared by a call
\* that runs uc_lcd_flush.
C7_CleanMeansMirrored ==
    /\ [](( lcd_mode = Buffered /\ started /\ uc_lcd_data_changed = 0 )
            => DeviceMirrorsBuffer)
    /\ [][ (lcd_mode = Buffered /\ uc_lcd_data_changed # 0 /\ uc_lcd_data_changed' = 0)
              => last_op'.op \in {"flush", "reset"} ]_vars

\* C7 witness: two changes were flushed: the flag is clear and the display holds the
\* inverted buffer with pixel (5,3) in it
C7_Witness ==
    /\ lcd_mode = Buffered
    /\ last_op.op = "flush"
    /\ ops = 2
    /\ uc_lcd_data_changed = 0
    /\ uc_lcd_inverted = 1
    /\ uc_lcd_buffer[5] = 247
    /\ dev.ram[1][5] = 247
    /\ dev.ram[2][511] = 255

\* C8: immediate mode, properly nested grouping: uc_lcd_enter_grouped_pixel_changes
\* sends nothing; uc_lcd_leave_grouped_pixel_changes sends the whole buffer once when
\* it brings the counter to 0 and sends nothing otherwise.
C8_OnlyOutermostLeaveSends ==
    [][ /\ (last_op'.op = "enter") => (sent' = << >> /\ full_sends' = 0)
        /\ (last_op'.op = "leave" /\ uc_lcd_grouped_pixel_actions_level > 1) =>
               /\ sent' = << >>
               /\ full_sends' = 0
               /\ uc_lcd_grouped_pixel_actions_level' = uc_lcd_grouped_pixel_actions_level - 1
        /\ (last_op'.op = "leave" /\ uc_lcd_grouped_pixel_actions_level = 1) =>
               /\ full_sends' = 1
               /\ Len(DataBytes(sent')) = 1024
               /\ uc_lcd_grouped_pixel_actions_level' = 0
      ]_vars

\* C8 witness: enter, enter, set_pixel(5,3,1), leave: the counter is back at 1, the
\* leave sent nothing and the display has not seen the pixel yet
C8_Witness ==
    /\ lcd_mode = Immediate
    /\ last_op.op = "leave"
    /\ uc_lcd_grouped_pixel_actions_level = 1
    /\ sent = << >>
    /\ uc_lcd_buffer[5] = 8
    /\ dev.ram[1][5] # 8

\* C9: immediate mode: while the grouping counter is above 0 an in-range
\* uc_lcd_set_pixel changes the frame buffer only: nothing is sent, the display and
\* the page/column cache stay as they are.
C9_GroupedPixelOnlyBuffer ==
    [][ ( /\ lcd_mode = Immediate
          /\ uc_lcd_grouped_pixel_actions_level > 0
          /\ PixelStep
          /\ InRange(last_op'.x, last_op'.y) ) =>
            /\ sent' = << >>
            /\ full_sends' = 0
            /\ dev' = dev
            /\ uc_lcd_current_column_chip1' = uc_lcd_current_column_chip1
            /\ uc_lcd_current_column_chip2' = uc_lcd_current_column_chip2
            /\ uc_lcd_current_page_chip1' = uc_lcd_current_page_chip1
            /\ uc_lcd_current_page_chip2' = uc_lcd_current_page_chip2
            /\ uc_lcd_grouped_pixel_actions_level' = uc_lcd_grouped_pixel_actions_level
            /\ uc_lcd_inverted' = uc_lcd_inverted
      ]_vars

\* C9 witness: pixel (64,0) was set inside a group: the buffer has it, nothing was
\* sent and the display does not have it
C9_Witness ==
    /\ lcd_mode = Immediate
    /\ last_op = Op("set_pixel", 64, 0, 1)
    /\ uc_lcd_grouped_pixel_actions_level = 2
    /\ uc_lcd_buffer[512] = 1
    /\ dev.ram[2][0] # 1
    /\ sent = << >>

\* C10: buffered mode: a whole-buffer send is exactly set column 0 for chip 1, per
\* page 0..7 its set page and 64 data bytes for chip 1, the same for chip 2, then set
\* page 0 for chip 1 and chip 2; the 1024 data bytes are the buffer in index order,
\* the first 512 to chip 1 only and the rest to chip 2 only.  uc_lcd_flush sends just
\* that; uc_lcd_reset ends with it.
C10_FullSendSequence ==
    (lcd_mode = Buffered /\ FullSendDone) =>
        /\ full_sends = 1
        /\ Len(sent) >= 1044
        /\ SubSeq(sent, Len(sent) - 1043, Len(sent)) = ExpectedFullSend(uc_lcd_buffer)
        /\ last_op.op = "flush" => sent = ExpectedFullSend(uc_lcd_buffer)
        /\ SelectSeq(sent, LAMBDA u : u[3] = 1) =
               [k \in 1 .. 1024 |->
                   IF k <= 512 THEN <<1, 0, 1, uc_lcd_buffer[k - 1]>>
                   ELSE <<0, 1, 1, uc_lcd_buffer[k - 1]>>]

\* C10 witness: uc_lcd_init, set_pixel(5,3,1), flush: one whole-buffer send whose data
\* byte at offset 5 is 0b00001000 and whose other data bytes are 0
C10_Witness ==
    /\ lcd_mode = Buffered
    /\ last_op.op = "flush"
    /\ ops = 1
    /\ full_sends = 1
    /\ Len(sent) = 1044
    /\ DataBytes(sent) = [k \in 1 .. 1024 |-> IF k = 6 THEN 8 ELSE 0]

\* C11: buffered mode: uc_lcd_set_pixel, uc_lcd_clear, uc_lcd_fill and
\* uc_lcd_set_inverted send nothing and leave the display as it is; they change the
\* frame buffer, the inverting status and the changed flag only.  Every in-range
\* uc_lcd_set_pixel leaves the changed flag set, also when the byte stays the same.
C11_BufferedCallsSendNothing ==
    [][ (lcd_mode = Buffered /\ last_op'.op \in {"set_pixel", "clear", "fill", "set_inverted"}) =>
            /\ sent' = << >>
            /\ full_sends' = 0
            /\ dev' = dev
            /\ uc_lcd_current_column_chip1' = uc_lcd_current_column_chip1
            /\ uc_lcd_current_column_chip2' = uc_lcd_current_column_chip2
            /\ uc_lcd_current_page_chip1' = uc_lcd_current_page_chip1
            /\ uc_lcd_current_page_chip2' = uc_lcd_current_page_chip2
            /\ uc_lcd_grouped_pixel_actions_level' = uc_lcd_grouped_pixel_actions_level
            /\ (PixelStep /\ InRange(last_op'.x, last_op'.y)) => uc_lcd_data_changed' = 1
      ]_vars

\* C11 witness: set_pixel(5,3,1), flush, set_pixel(5,3,1): the second call found the
\* bit set and the flag clear, stored the same byte and set the flag; the display
\* still holds what the flush brought
C11_Witness ==
    /\ lcd_mode = Buffered
    /\ last_op = Op("set_pixel", 5, 3, 1)
    /\ ops = 2
    /\ uc_lcd_data_changed = 1
    /\ uc_lcd_buffer[5] = 8
    /\ dev.ram[1][5] = 8
    /\ sent = << >>

\* the three LCD_DMS_SR_BIT_ macros name Qa, Qb and Qc, each once
IsPermutation(bits) == {bits.csel1, bits.csel2, bits.command_data} = {0, 1, 2}

\* the step is a uc_lcd_send followed at pin level
SendStep == sends' = sends + 1

\* C12: parallel data mode, control pins on one port or on individual ports: when
\* enable rises in uc_lcd_send(csel1, csel2, command_data, data) the lines CSEL1,
\* CSEL2 and command/data are at the levels csel1, csel2 and command_data of this
\* call, whatever was sent before, and the data port holds data.
C12_ParallelLinesFollowArguments ==
    [][ (transport \in {ParallelTogether, ParallelIndividual} /\ SendStep) =>
            pins'.latched = request'
      ]_vars

\* C13: serial data mode with the three bit macros a permutation of 0, 1, 2: after
\* uc_lcd_shift_out the first register shows the data byte, Qa its bit 0 and Qh its
\* bit 7, and the second register shows csel1, csel2 and command_data on the outputs
\* the macros name, whatever the registers held before.
C13_SerialOutputsHoldUnit ==
    [][ (transport = Serial /\ IsPermutation(sr_bits) /\ SendStep) =>
            /\ \A k \in 0 .. 7 : pins'.out[1 + k] = Bit(request'[4], k)
            /\ pins'.out[9 + sr_bits.csel1] = request'[1]
            /\ pins'.out[9 + sr_bits.csel2] = request'[2]
            /\ pins'.out[9 + sr_bits.command_data] = request'[3]
            /\ pins'.latched = request'
      ]_vars

\* C13 witness: registers full of ones at power-on, CSEL1 on Qc, CSEL2 on Qa and
\* command/data on Qb: the second send (1, 0, 1, 0xAA) shows on the outputs, a bit of
\* the send before it sits behind them on Qd
C13_Witness ==
    /\ transport = Serial
    /\ sr_bits = SrBits(2, 0, 1)
    /\ sends = 2
    /\ request = <<1, 0, 1, 170>>
    /\ pins.out[11] = 1 /\ pins.out[9] = 0 /\ pins.out[10] = 1
    /\ LinesByte(pins.out, 1, 8) = 170
    /\ pins.out[12] = 1
    /\ pins.latched = <<1, 0, 1, 170>>

\* C14: whatever the data mode of the build (serial with the bit macros a
\* permutation), every enable pulse shows the display the unit (csel1, csel2,
\* command_data, data) the call was given, so every data mode shows it the same
\* sequence of units.
C14_TransportsShowSameUnits ==
    [][ (SendStep /\ (transport = Serial => IsPermutation(sr_bits))) =>
            /\ pins'.latched[1] = request'[1]
            /\ pins'.latched[2] = request'[2]
            /\ pins'.latched[3] = request'[3]
            /\ pins'.latched[4] = request'[4]
      ]_vars

\* C15: the validation of a serial build accepts the three bit macros exactly when
\* they are a permutation of 0, 1, 2.
C15_AcceptedIsPermutation ==
    (transport = Serial /\ build # "unchecked") =>
        (build \in {"accepted", "running"} <=> IsPermutation(sr_bits))

\* C16 as stated: uc_lcd_turn_on sends 0x3F and uc_lcd_turn_off 0x3E to both chips
\* with the command/data flag at data; uc_lcd_set_startline(l) sends 0b11000000 | l
\* to both chips as a command.
C16_OnOffFlaggedData ==
    [][ /\ last_op'.op = "turn_on" => sent' = << <<1, 1, 1, 63>> >>
        /\ last_op'.op = "turn_off" => sent' = << <<1, 1, 1, 62>> >>
        /\ last_op'.op = "set_startline" =>
               sent' = << <<1, 1, 0, 192 + (last_op'.x % 64)>> >>
      ]_vars

\* C16 amended: uc_lcd_turn_on sends 0x3F, uc_lcd_turn_off 0x3E and
\* uc_lcd_set_startline(l) 0b11000000 | l, each as one unit to both chips with the
\* command/data flag at command.
C16_OnOffStartlineAreCommands ==
    [][ /\ last_op'.op = "turn_on" => sent' = << <<1, 1, 0, 63>> >>
        /\ last_op'.op = "turn_off" => sent' = << <<1, 1, 0, 62>> >>
        /\ last_op'.op = "set_startline" =>
               sent' = << <<1, 1, 0, 192 + (last_op'.x % 64)>> >>
      ]_vars

\* C16 witness: uc_lcd_turn_on after a data byte was written: both controllers are
\* on and the display RAM was not written by the 0x3F
C16_Witness ==
    /\ last_op.op = "turn_on"
    /\ ops = 2
    /\ sent = << <<1, 1, 0, 63>> >>
    /\ dev.on = <<1, 1>>
    /\ dev.ram[1][0] = 165
    /\ dev.ram[1][1] = 0
    /\ dev.col = <<1, 0>>

\* C17: a set page or set column call for chip n that sends, sends one unit: chip n
\* selected alone, command, byte 0b10111000 | (p & 0b111) or 0b01000000 |
\* (c & 0b111111); a data write for chip n sends the byte with chip n selected alone
\* and the flag at data.  The units of an immediate uc_lcd_set_pixel are of these
\* kinds, for the chip, page and column of the pixel.
C17_AddressedUnits ==
    [][ LET a == last_op'.x
            PageUnit(c1, c2, pg) == <<c1, c2, 0, 184 + (pg % 8)>>
            ColumnUnit(c1, c2, cl) == <<c1, c2, 0, 64 + (cl % 64)>>
        IN  /\ last_op'.op = "set_page_chip_1" => sent' \in { << >>, << PageUnit(1, 0, a) >> }
            /\ last_op'.op = "set_page_chip_2" => sent' \in { << >>, << PageUnit(0, 1, a) >> }
            /\ last_op'.op = "set_column_chip_1" => sent' \in { << >>, << ColumnUnit(1, 0, a) >> }
            /\ last_op'.op = "set_column_chip_2" => sent' \in { << >>, << ColumnUnit(0, 1, a) >> }
            /\ last_op'.op \in {"set_page_chip_1", "set_page_chip_2",
                                "set_column_chip_1", "set_column_chip_2"}
                 => (lcd_mode = Buffered => sent' # << >>)
            /\ last_op'.op = "write_chip1" => sent' = << <<1, 0, 1, a>> >>
            /\ last_op'.op = "write_chip2" => sent' = << <<0, 1, 1, a>> >>
            /\ (PixelStep /\ sent' # << >>) =>
                   LET x == last_op'.x
                       y == last_op'.y
                       c1 == IF x < 64 THEN 1 ELSE 0
                       c2 == 1 - c1
                   IN  /\ \A k \in 1 .. Len(sent') :
                              sent'[k] \in { PageUnit(c1, c2, y \div 8),
                                             ColumnUnit(c1, c2, x),
                                             <<c1, c2, 1, uc_lcd_buffer'[BufferIndex(x, y)]>> }
                       /\ sent'[Len(sent')][3] = 1
      ]_vars

\* C17 witness: uc_lcd_set_column_chip_1(200) sent 0b01000000 | 0b001000 to chip 1
\* alone, and the controller's column register took 8
C17_Witness ==
    /\ last_op = Op("set_column_chip_1", 200, 0, 0)
    /\ sent = << <<1, 0, 0, 72>> >>
    /\ dev.col[1] = 8

\* the driver reads the inverting status as a truth value: 1 where it is not zero
InvertedNow(inverted) == IF inverted # 0 THEN 1 ELSE 0

\* the logical value of a pixel: its stored bit XOR the inverting status
LogicalBit(byte, bit, inverted) == (Bit(byte, bit) + InvertedNow(inverted)) % 2

\* every pixel of the buffer has the logical value v
AllLogical(buffer, inverted, v) ==
    \A i \in 0 .. (BufferSize - 1) : \A bit \in 0 .. 7 :
        LogicalBit(buffer[i], bit, inverted) = v

\* C18: from a state with the inverting status 0, uc_lcd_set_inverted(1) followed by
\* uc_lcd_set_inverted(0) leaves every byte of the frame buffer and the inverting
\* status as they were before the first of the two calls.
C18_InvertRoundTrip ==
    [][ (/\ last_op = Op("set_inverted", 0, 0, 1)
         /\ before_invert.inverted = 0
         /\ last_op' = Op("set_inverted", 0, 0, 0)
         /\ ops' = ops + 1) =>
            /\ uc_lcd_buffer' = before_invert.buffer
            /\ uc_lcd_inverted' = before_invert.inverted
      ]_vars

\* C18 witness: set_pixel(5,3,1), set_inverted(1), set_inverted(0): the buffer that
\* went through the round trip held a set pixel
C18_Witness ==
    /\ ops = 3
    /\ last_op = Op("set_inverted", 0, 0, 0)
    /\ before_invert.inverted = 1
    /\ before_invert.buffer[5] = 247
    /\ before_invert.buffer[6] = 255
    /\ uc_lcd_buffer[5] = 8
    /\ uc_lcd_buffer[6] = 0
    /\ uc_lcd_inverted = 0

C20_ClearAndFillAreLogical ==
    [][ (last_op'.op \in {"clear", "fill"} /\ ops' = ops + 1) =>
            /\ uc_lcd_inverted' = uc_lcd_inverted
            /\ AllLogical(uc_lcd_buffer', uc_lcd_inverted',
                          IF last_op'.op = "fill" THEN 1 ELSE 0)
      ]_vars

\* C20 witness: set_inverted(1), then clear: every byte is 0xFF and the status is 1
C20_Witness ==
    /\ ops = 2
    /\ last_op = Op("clear", 0, 0, 0)
    /\ uc_lcd_inverted = 1
    /\ \A i \in 0 .. (BufferSize - 1) : uc_lcd_buffer[i] = 255

\* C21: uc_lcd_reset, from whatever state it is called in (the call made by
\* uc_lcd_init included), ends with the inverting status 0 and all 1024 bytes of the
\* frame buffer 0x00; in immediate mode with the grouping counter 0; in buffered mode
\* with the changed flag 0 and after exactly one whole-buffer send.
C21_ResetEndState ==
    [][ (last_op'.op \in {"reset", "init"} /\ (ops' = ops + 1 \/ started' # started)) =>
            /\ uc_lcd_inverted' = 0
            /\ \A i \in 0 .. (BufferSize - 1) : uc_lcd_buffer'[i] = 0
            /\ lcd_mode = Immediate => uc_lcd_grouped_pixel_actions_level' = 0
            /\ lcd_mode = Buffered => (uc_lcd_data_changed' = 0 /\ full_sends' = 1)
      ]_vars

\* C21 witness: buffered mode, a reset that follows another call (a set_inverted(1),
\* a fill, a set_pixel): it sent the buffer once and the display holds zeros
C21_Witness ==
    /\ lcd_mode = Buffered
    /\ last_op.op = "reset"
    /\ ops = 2
    /\ uc_lcd_inverted = 0
    /\ uc_lcd_data_changed = 0
    /\ full_sends = 1
    /\ uc_lcd_buffer[5] = 0
    /\ dev.ram[1][5] = 0
    /\ dev.ram[2][0] = 0

\* uc_lcd_set_pixel(x, y, 1) with the inverting status 0 sets bit `bit` of byte
\* `index` and leaves the rest of the frame buffer as it is
BoundarySets(x, y, index, bit) ==
    (last_op' = Op("set_pixel", x, y, 1) /\ ops' = ops + 1 /\ uc_lcd_inverted = 0) =>
        /\ Bit(uc_lcd_buffer'[index], bit) = 1
        /\ uc_lcd_buffer' = [uc_lcd_buffer EXCEPT ![index] = SetBit(@, bit)]

\* C22 as stated: with the inverting status 0, set_pixel(0,0,1) sets bit 0 of byte 0,
\* set_pixel(63,7,1) bit 7 of byte 511, set_pixel(64,0,1) bit 0 of byte 512 and
\* set_pixel(127,63,1) bit 7 of byte 1023.
C22_BoundaryAsStated ==
    [][ /\ BoundarySets(0, 0, 0, 0)
        /\ BoundarySets(63, 7, 511, 7)
        /\ BoundarySets(64, 0, 512, 0)
        /\ BoundarySets(127, 63, 1023, 7)
      ]_vars

\* C22 amended: with the inverting status 0, set_pixel(0,0,1) sets bit 0 of byte 0,
\* set_pixel(63,7,1) bit 7 of byte 63 (row 7 is in page 0), set_pixel(63,63,1) bit 7
\* of byte 511, set_pixel(64,0,1) bit 0 of byte 512 and set_pixel(127,63,1) bit 7 of
\* byte 1023.
C22_BoundaryCells ==
    [][ /\ BoundarySets(0, 0, 0, 0)
        /\ BoundarySets(63, 7, 63, 7)
        /\ BoundarySets(63, 63, 511, 7)
        /\ BoundarySets(64, 0, 512, 0)
        /\ BoundarySets(127, 63, 1023, 7)
      ]_vars

\* C22 witness: set_pixel(63,7,1) on the empty buffer: byte 63 holds 0x80 and byte
\* 511 holds nothing
C22_Witness ==
    /\ last_op = Op("set_pixel", 63, 7, 1)
    /\ ops = 1
    /\ uc_lcd_inverted = 0
    /\ uc_lcd_buffer[63] = 128
    /\ uc_lcd_buffer[511] = 0

\* C30: immediate mode, grouping counter 0: an in-range uc_lcd_set_pixel sends a
\* set-column command to the target chip exactly when the pixel's column differs from
\* the column cached for that chip; a pixel in the cached page and column is sent as
\* one data byte and nothing else.
C30_ColumnSentIffCacheDiffers ==
    [][ ( /\ lcd_mode = Immediate
          /\ uc_lcd_grouped_pixel_actions_level = 0
          /\ PixelStep
          /\ ops' = ops + 1
          /\ InRange(last_op'.x, last_op'.y) ) =>
            LET x == last_op'.x
                y == last_op'.y
                chip_1 == x < Columns
                column == x % Columns
                page == y \div 8
                cached_column == IF chip_1 THEN uc_lcd_current_column_chip1
                                 ELSE uc_lcd_current_column_chip2
                cached_page == IF chip_1 THEN uc_lcd_current_page_chip1
                               ELSE uc_lcd_current_page_chip2
                set_column == << IF chip_1 THEN 1 ELSE 0, IF chip_1 THEN 0 ELSE 1, 0,
                                 Or8(CmdSetColumn, column) >>
            IN  /\ (\E k \in 1 .. Len(sent') : sent'[k] = set_column)
                       <=> (column # cached_column)
                /\ (column = cached_column /\ page = cached_page) =>
                       (Len(sent') = 1 /\ sent'[1][3] = 1)
      ]_vars

\* n calls of uc_lcd_leave_grouped_pixel_changes made one after the other from m; the
\* field full of the result counts the whole-buffer sends of all of them
RECURSIVE LeaveTimes(_, _)
LeaveTimes(m, n) ==
    IF n = 0 THEN m
    ELSE IF n = 1 THEN uc_lcd_leave_grouped_pixel_changes(m)
    ELSE LET half == LeaveTimes(m, n \div 2)
         IN  IF half.level < Uint8 THEN LeaveTimes(half, n - (n \div 2)) ELSE half

\* an unmatched leave was made and neither a reset nor a further unmatched leave since
Underflowed ==
    /\ lcd_mode = Immediate
    /\ \/ uc_lcd_grouped_pixel_actions_level = Uint8 - 1
       \/ (last_op.op = "enter" /\ uc_lcd_grouped_pixel_actions_level = 0)

\* a leave at counter 0 sends nothing and leaves the counter at 255
UnderflowStep ==
    (lcd_mode = Immediate /\ uc_lcd_grouped_pixel_actions_level = 0
        /\ last_op'.op = "leave") =>
            /\ sent' = << >>
            /\ full_sends' = 0
            /\ uc_lcd_grouped_pixel_actions_level' = Uint8 - 1

\* C29 as stated: a leave at counter 0 sends nothing and leaves the counter at 255;
\* from then on, until a reset or 255 further unmatched leaves, every in-range
\* uc_lcd_set_pixel sends nothing and the leave of an enter/leave pair sends no
\* whole buffer.
C29_UnderflowAsStated ==
    [][ /\ UnderflowStep
        /\ (Underflowed /\ PixelStep /\ ops' = ops + 1
                /\ InRange(last_op'.x, last_op'.y)) => sent' = << >>
        /\ (Underflowed /\ last_op.op = "enter" /\ last_op'.op = "leave") =>
                full_sends' = 0
      ]_vars

\* C29 amended: a leave at counter 0 sends nothing and leaves the counter at 255, from
\* where 255 further leaves in a row are needed for the next whole-buffer send; while
\* the counter is 255 an in-range uc_lcd_set_pixel sends nothing; an enter at 255
\* wraps the counter to 0, an in-range uc_lcd_set_pixel made then is sent at once, and
\* the leave of that pair sends no whole buffer and leaves the counter at 255 again;
\* uc_lcd_reset sets the counter to 0.
C29_UnderflowWraps ==
    [][ /\ UnderflowStep
        /\ (lcd_mode = Immediate /\ uc_lcd_grouped_pixel_actions_level = 0
                /\ last_op'.op = "leave") =>
               LET d == uc_lcd_leave_grouped_pixel_changes(Pack)
                   before_last == LeaveTimes(d, Uint8 - 2)
                   last == uc_lcd_leave_grouped_pixel_changes(before_last)
               IN  /\ before_last.full = 0 /\ before_last.level = 1
                   /\ last.full = 1 /\ last.level = 0
        /\ (lcd_mode = Immediate /\ uc_lcd_grouped_pixel_actions_level = Uint8 - 1) =>
               /\ (PixelStep /\ ops' = ops + 1 /\ InRange(last_op'.x, last_op'.y)) =>
                      (sent' = << >> /\ full_sends' = 0)
               /\ last_op'.op = "enter" => uc_lcd_grouped_pixel_actions_level' = 0
               /\ (last_op'.op = "reset" /\ ops' = ops + 1) =>
                      uc_lcd_grouped_pixel_actions_level' = 0
        /\ (Underflowed /\ last_op.op = "enter") =>
               /\ (PixelStep /\ ops' = ops + 1 /\ InRange(last_op'.x, last_op'.y)) =>
                      (sent' # << >> /\ full_sends' = 0)
               /\ last_op'.op = "leave" =>
                      (full_sends' = 0 /\ uc_lcd_grouped_pixel_actions_level' = Uint8 - 1)
      ]_vars

\* C29 witness: leave, enter, set_pixel(5,3,1), leave: the counter is at 255 for the
\* second time, the pixel went out on its own and no whole buffer was sent
C29_Witness ==
    /\ lcd_mode = Immediate
    /\ last_op.op = "leave"
    /\ ops = 1
    /\ uc_lcd_grouped_pixel_actions_level = Uint8 - 1
    /\ sent = << >>
    /\ full_sends = 0
    /\ uc_lcd_buffer[5] = 8
    /\ dev.ram[1][5] = 8

\* the step is a call `op` of the timed task library
TtStep(op) == tt_last'.op = op /\ tt_calls' = tt_calls + 1

\* the function of task t was invoked by the call the step makes
Invoked(t) == \E k \in 1 .. Len(tt_ran') : tt_ran'[k].task = t

\* task t is in the task buffer
InBuffer(t) == \E i \in 0 .. (UC_TT_TASK_BUFFER - 1) : uc_tt_tasks[i] = t

OnlyOnce(t) == FlagSet(tt_task[t].flags, UC_TT_FLAG_BIT_EXECUTE_ONLY_ONCE)
WithoutDelay(t) == FlagSet(tt_task[t].flags, UC_TT_FLAG_BIT_EXECUTE_WITHOUT_DELAY)
Active(t) == FlagSet(tt_task[t].flags, UC_TT_FLAG_BIT_ACTIVE_STATUS)

\* C23: a task with UC_TT_FLAG_BIT_EXECUTE_ONLY_ONCE: whenever its function is
\* invoked the active flag is clear already; after the call that executed it the task
\* is inactive, unless its function activated it again; uc_tt_update does not invoke
\* the function of a task that is inactive when the update is called.
C23_OnlyOnceDeactivatedFirst ==
    [][ \A t \in Tasks : OnlyOnce(t) =>
            /\ \A k \in 1 .. Len(tt_ran') :
                   tt_ran'[k].task = t =>
                       ~FlagSet(tt_ran'[k].flags, UC_TT_FLAG_BIT_ACTIVE_STATUS)
            /\ (tt_calls' = tt_calls + 1 /\ Invoked(t)
                    /\ tt_task[t].function = "plain") =>
                   ~FlagSet(tt_task'[t].flags, UC_TT_FLAG_BIT_ACTIVE_STATUS)
            /\ (TtStep("update") /\ ~Active(t)) => ~Invoked(t)
      ]_vars

\* C23 witness: task 1, execute-only-once and with delay, was added, activated at
\* time 0 and executed by the uc_tt_update at time 3: its function found the active
\* flag clear, and the task is inactive
C23_Witness ==
    /\ tt_last.op = "update"
    /\ tt_ran = << [task |-> 1, flags |-> 4, time |-> 3] >>
    /\ tt_task[1].flags = 4
    /\ tt_task[1].function = "plain"
    /\ tt_task[1].last_executed_us = 3

\* C24: uc_tt_activate_task on an active task changes nothing and invokes nothing; on
\* an inactive task with UC_TT_FLAG_BIT_EXECUTE_WITHOUT_DELAY it invokes the task's
\* function during the call; on an inactive task without that flag it invokes
\* nothing, sets the active flag and stores the current time in last_executed_us, and
\* a later uc_tt_update invokes the function only when the time since then has
\* reached the interval.
C24_ActivateStartsOrExecutes ==
    [][ \A t \in Tasks :
            /\ (TtStep("activate") /\ tt_last'.task = t) =>
                   IF Active(t)
                   THEN tt_task' = tt_task /\ uc_tt_tasks' = uc_tt_tasks /\ tt_ran' = << >>
                   ELSE IF WithoutDelay(t)
                   THEN Len(tt_ran') >= 1 /\ tt_ran'[1].task = t /\ tt_ran'[1].time = tt_now
                   ELSE /\ tt_ran' = << >>
                        /\ FlagSet(tt_task'[t].flags, UC_TT_FLAG_BIT_ACTIVE_STATUS)
                        /\ tt_task'[t].last_executed_us = tt_now
            /\ (TtStep("update") /\ Invoked(t)) =>
                   tt_now - tt_task[t].last_executed_us >= tt_task[t].interval_us
      ]_vars

\* C24 witness: task 2 (with delay, periodic) was added, activated at time 0, and its
\* first execution is by the uc_tt_update at time 3
C24_Witness ==
    /\ tt_last.op = "update"
    /\ tt_ran = << [task |-> 2, flags |-> 1, time |-> 3] >>
    /\ tt_task[2].last_executed_us = 3
    /\ tt_task[2].flags = 1

\* C25: uc_tt_update invokes the function of a task exactly when the task is in the
\* task buffer, its active flag is set and the time since its last execution is the
\* interval or more; an executed task has the current time in last_executed_us.
C25_UpdateExecutesWhenDue ==
    [][ TtStep("update") =>
            \A t \in Tasks :
                /\ Invoked(t) <=>
                       (/\ InBuffer(t)
                        /\ Active(t)
                        /\ tt_now - tt_task[t].last_executed_us >= tt_task[t].interval_us)
                /\ Invoked(t) => tt_task'[t].last_executed_us = tt_now
      ]_vars

\* C26: after uc_tt_remove_task(t) no slot of the task buffer holds t and the active
\* flag of t is clear; a uc_tt_update made while t has not been added again does not
\* invoke the function of t.
C26_RemovedIsGone ==
    [][ \A t \in Tasks :
            /\ (TtStep("remove") /\ tt_last'.task = t) =>
                   /\ \A i \in 0 .. (UC_TT_TASK_BUFFER - 1) : uc_tt_tasks'[i] # t
                   /\ ~FlagSet(tt_task'[t].flags, UC_TT_FLAG_BIT_ACTIVE_STATUS)
            /\ (TtStep("update") /\ tt_last = [op |-> "remove", task |-> t]) =>
                   ~Invoked(t)
      ]_vars

\* C27: ow_send_byte puts the bits of its argument on the bus from bit 0 to bit 7, a
\* 1 as ow_write_1 and a 0 as ow_write_0; ow_read_byte puts the first bit it reads
\* in bit 0 and the last in bit 7; reading back what was sent returns the byte.
C27_ByteOrderRoundTrip ==
    /\ ow_calls >= 1 =>
           /\ Len(ow_slots) = 8
           /\ \A k \in 1 .. 8 :
                  ow_slots[k] = IF Bit(ow_byte, k - 1) = 1 THEN "ow_write_1"
                                ELSE "ow_write_0"
    /\ (ow_calls = 2 /\ ow_fn = "none" /\ Len(ow_slots) = 8) =>
           /\ \A k \in 1 .. 8 : Bit(ow_result, k - 1) = SlotBit(ow_slots[k])
           /\ ow_result = ow_byte

\* C27 witness: 0xCC (skip ROM) went out as 0,0,1,1,0,0,1,1 and came back as 0xCC
C27_Witness ==
    /\ ow_byte = 204
    /\ ow_calls = 2
    /\ ow_slots = << "ow_write_0", "ow_write_0", "ow_write_1", "ow_write_1",
                     "ow_write_0", "ow_write_0", "ow_write_1", "ow_write_1" >>
    /\ ow_result = 204

\* C28: a build with OW_TIMING_PRECISE: in ow_reset, ow_write_0, ow_write_1 and
\* ow_read_bit the interrupt enable bit is clear when the bus is first pulled low and
\* stays clear until the last delay is over, so that no interrupt is served in
\* between; when the function returns the bit is what it was at entry.
C28_PreciseKeepsInterruptsOff ==
    [][ ow_timing = OW_TIMING_PRECISE =>
            /\ (ow_bus = "released" /\ ow_bus' = "low") => (sreg_i = 0 /\ sreg_i' = 0)
            /\ ow_window' = "open" => sreg_i' = 0
            /\ (ow_window = "open" /\ ow_window' = "closed") => sreg_i = 0
            /\ ow_irqs' = 0
            /\ (ow_fn # "none" /\ ow_fn' = "none") => sreg_i' = ow_entry_i
      ]_vars

\* C28 witness: ow_read_bit was called with the bit set and has returned: the bit is
\* set again and no interrupt was served in the slot
C28_Witness ==
    /\ ow_timing = OW_TIMING_PRECISE
    /\ ow_fn = "none"
    /\ ow_calls = 1
    /\ ow_entry_i = 1
    /\ ow_ie = 1
    /\ sreg_i = 1
    /\ ow_window = "closed"
    /\ ow_bus = "released"
    /\ ow_irqs = 0

\* C32: immediate mode: uc_lcd_clear, uc_lcd_fill and a uc_lcd_set_inverted that
\* changes the polarity each send the whole buffer exactly once at the call, whatever
\* the grouping counter is, and none of them changes the grouping counter.
C32_WholeBufferCallsSendAtOnce ==
    [][ ( /\ lcd_mode = Immediate
          /\ ops' = ops + 1
          /\ \/ last_op'.op \in {"clear", "fill"}
             \/ /\ last_op'.op = "set_inverted"
                /\ InvertedNow(last_op'.v) # InvertedNow(uc_lcd_inverted) ) =>
            /\ full_sends' = 1
            /\ Len(DataBytes(sent')) = BufferSize
            /\ uc_lcd_grouped_pixel_actions_level' = uc_lcd_grouped_pixel_actions_level
      ]_vars

\* C32 witness: enter, enter, set_pixel(5,3,1), fill: the fill inside the group
\* sent the buffer once, the display shows it and the counter is still 2
C32_Witness ==
    /\ lcd_mode = Immediate
    /\ last_op.op = "fill"
    /\ uc_lcd_grouped_pixel_actions_level = 2
    /\ full_sends = 1
    /\ uc_lcd_buffer[5] = 255
    /\ dev.ram[1][5] = 255

\* C34: immediate mode, display registers 0 when uc_lcd_init starts: after every
\* call of the public API (init, reset, clear, fill, set_inverted, set_pixel, enter,
\* leave), in any order, the cached page and the cached column of each chip equal
\* the page register and the column register of that chip.
C34_CacheMatchesRegisters ==
    (lcd_mode = Immediate /\ started) =>
        /\ uc_lcd_current_page_chip1 = dev.page[1]
        /\ uc_lcd_current_page_chip2 = dev.page[2]
        /\ uc_lcd_current_column_chip1 = dev.col[1]
        /\ uc_lcd_current_column_chip2 = dev.col[2]

\* C34 witness: set_pixel(5,3,1), set_pixel(127,63,1): chip 1 stands at column 6 of
\* page 0, chip 2 went to page 7 and stepped from column 63 round to 0, and the cache
\* says the same
C34_Witness ==
    /\ lcd_mode = Immediate
    /\ last_op = Op("set_pixel", 127, 63, 1)
    /\ ops = 2
    /\ uc_lcd_current_column_chip1 = 6 /\ dev.col[1] = 6
    /\ uc_lcd_current_page_chip2 = 7 /\ dev.page[2] = 7
    /\ uc_lcd_current_column_chip2 = 0 /\ dev.col[2] = 0
    /\ dev.ram[2][511] = 128

\* C36: for every argument v, uc_lcd_set_inverted(v) complements the frame buffer
\* only when the truth value of v differs from the truth value of the inverting
\* status; with the same truth value (any non-zero v while inverted) the frame buffer
\* stays as it is, and the logical value of every pixel is kept either way.
C36_InvertComparesTruthValues ==
    [][ (last_op'.op = "set_inverted" /\ ops' = ops + 1) =>
            /\ IF InvertedNow(last_op'.v) = InvertedNow(uc_lcd_inverted)
               THEN uc_lcd_buffer' = uc_lcd_buffer
               ELSE \A i \in 0 .. (BufferSize - 1) :
                        uc_lcd_buffer'[i] = (Uint8 - 1) - uc_lcd_buffer[i]
            /\ \A i \in 0 .. (BufferSize - 1) : \A bit \in 0 .. 7 :
                   LogicalBit(uc_lcd_buffer'[i], bit, uc_lcd_inverted')
                       = LogicalBit(uc_lcd_buffer[i], bit, uc_lcd_inverted)
      ]_vars

\* C31: the address cache changes nothing the display can see: after every sequence
\* of calls of the API that starts with uc_lcd_init, the display of the immediate
\* driver (RAM, page and column registers of both chips) is in the state of the
\* display driven by the same driver with every set-page and set-column command sent.
C31_CacheIsOnlyAnOptimization ==
    (lcd_mode = Immediate /\ started) => dev = ref.dev

\* C35: immediate mode: while more groups have been entered than left (no leave
\* without its enter), an in-range uc_lcd_set_pixel sends nothing, at every nesting
\* depth, 256 and more included.
C35_OpenGroupHoldsPixelsBack ==
    [][ ( /\ open_groups > 0
          /\ PixelStep
          /\ InRange(last_op'.x, last_op'.y) ) => sent' = << >>
      ]_vars

\* what the display and the shift registers are given: everything but the enable line
Outputs(p) == << p.data, p.csel1, p.csel2, p.command_data, p.clock, p.serial, p.shift, p.out >>

\* the places of the wave w at which the enable line goes from `from` to `to`
EnableEdges(w, before, from, to) ==
    { k \in 1 .. Len(w) :
        /\ w[k].pins.enable = to
        /\ (IF k = 1 THEN before.enable ELSE w[k - 1].pins.enable) = from }

\* C33: every uc_lcd_send, in every data mode, gives the enable line exactly one
\* pulse (low, high, low); all writes to the data and control outputs (serial mode:
\* all 12 clock pulses) come before the rise, so no output changes while the line is
\* high; the line is low when the call returns and between the calls.
C33_EnablePulseProtocol ==
    [][ SendStep =>
            LET rises == EnableEdges(wave', pins, 0, 1)
                falls == EnableEdges(wave', pins, 1, 0)
            IN  /\ pins.enable = 0
                /\ pins'.enable = 0
                /\ wave'[Len(wave')].pins = pins'
                /\ Cardinality(rises) = 1
                /\ Cardinality(falls) = 1
                /\ \A r \in rises : \A f \in falls :
                      /\ 1 < r /\ r < f /\ f = Len(wave')
                      /\ \A k \in r .. f :
                            /\ wave'[k].st \in {"enable_on", "enable_off"}
                            /\ Outputs(wave'[k].pins) = Outputs(wave'[r - 1].pins)
                      /\ wave'[r].pins.latched = DisplayLines(pins', transport, sr_bits)
                      /\ transport = Serial =>
                            Cardinality({ k \in 1 .. (r - 1) : wave'[k].st = "clock_on" }) = 12
      ]_vars

\* C33 witness: a serial send of (1, 0, 1, 0xAA): 11 serial bits with their clock
\* pulses and the flushing pulse make 35 writes, the enable line rises at the 36th,
\* with the unit on the register outputs, and falls at the 37th
C33_Witness ==
    /\ transport = Serial
    /\ sr_bits = SrBits(2, 0, 1)
    /\ last_op.op = "send"
    /\ request = <<1, 0, 1, 170>>
    /\ Len(wave) = 37
    /\ wave[35].st = "clock_off" /\ wave[35].pins.enable = 0
    /\ LinesByte(wave[35].pins.out, 1, 8) = 170
    /\ wave[36].st = "enable_on" /\ wave[36].pins.enable = 1
    /\ wave[36].pins.latched = <<1, 0, 1, 170>>
    /\ wave[37].st = "enable_off" /\ pins.enable = 0

\* C37: uc_tt_update and uc_tt_activate_task always return and invoke the function of
\* each task at most once per call, also when the function activates its own task, for
\* every combination of EXECUTE_ONLY_ONCE and EXECUTE_WITHOUT_DELAY.
C37_CallsReturnAndInvokeOnce ==
    [][ (TtStep("update") \/ TtStep("activate")) =>
            /\ ~tt_stuck'
            /\ \A t \in Tasks :
                  Cardinality({ k \in 1 .. Len(tt_ran') : tt_ran'[k].task = t }) <= 1
      ]_vars

\* C38: with the TIMER0 compare interrupt free to fire between any two of the eight
\* byte loads of Time_Get, every value Time_Get returns is a value time_us held at
\* some instant of the call, and a Time_Get never returns less than the one before.
C38_TimeGetIsAtomic ==
    (tg_calls > 0 /\ tg_pc = 0) =>
        /\ tg_result \in tg_held
        /\ TimeLeq(tg_prev, tg_result)

\* C39: uc_graphics_draw_line(x1, y1, x2, y2, pixel) returns after finitely many
\* LCD_API_SET_PIXEL calls for every combination of uint8 coordinates, the end
\* coordinates 255 included.
C39_DrawLineReturns ==
    (gr_pc \notin {"idle", "done"}) ~> (gr_pc = "done")

====
